---- MODULE Spec2Model ----
(***************************************************************************)
(* pretty-modbus: typed layouts over the register and coil address spaces  *)
(* of a Modbus slave.                                                      *)
(*                                                                         *)
(*   SpecCodec   the payload builder and decoder (pretty_modbus.registers) *)
(*   SpecLayout  construction of variables and layouts, build_payload      *)
(*   SpecStruct  Struct.encode and Struct.decode                           *)
(*   Spec        the ServerContext, Client and Protocol facades            *)
(*   SpecClient  the Client over a factory and a transport that may raise  *)
(*   SpecDaemon  AsyncDaemon, DaemonThread and threaded.Daemon running a   *)
(*               job on the context next to a caller that writes to it     *)
(*                                                                         *)
(* pretty_modbus/registers.py and pretty_modbus/coils.py are not part of   *)
(* the source tree at hand; the definitions that stand for them follow the *)
(* specification document and the test suites tests/test_registers.py and  *)
(* tests/test_coils.py.                                                    *)
(***************************************************************************)
EXTENDS Integers, Sequences, FiniteSets, TLC

VARIABLES
    builder,      \* _PayloadBuilder: [byteorder, wordorder, payload]
    added,        \* the (tag, value) pairs the builder has accepted, in order
    call,         \* the last add_number call: [tag, value, error]
    decoder,      \* _PayloadDecoder: [payload, pointer, byteorder, wordorder] or NoDecoder
    decoded,      \* the values the decoder has returned, in order
    declared,     \* the Variable objects constructed so far, in declaration order
    ctor,         \* the last constructor call: [op, args, error]
    layout,       \* the CoilLayout or RegisterLayout constructed from declared
    built,        \* the last build_payload call: [values, error, unknown, chunks]
    store,        \* the datastore: unit -> sub-space -> address -> cell
    req,          \* the facade call in progress or completed last
    lastWrite,    \* the values map of the last completed write, with its unit and sub-space
    nops,         \* facade calls started so far
    active,       \* Client._active
    worker,       \* the thread of _client_main: [pc, rpc]
    commands,     \* Client._command_queue
    responses,    \* Client._response_queue
    phase,        \* the state of the Client: "created", "started" or "stopped"
    env,          \* the run: "plain", or "faulty" with timeouts and a transport that may raise
    daemon,       \* the daemon object and its thread or task, or NoDaemon
    made,         \* the last constructor call of a daemon: [variant, period, error]
    other         \* the call of a second thread on the same Client, as req

codecVars == <<builder, added, call, decoder, decoded>>
layoutVars == <<declared, ctor, layout, built>>
facadeVars == <<store, req, lastWrite, nops, active, worker, commands, responses, phase, env>>

daemonVars == <<daemon, made>>

callerVars == <<other>>

vars == <<codecVars, layoutVars, facadeVars, daemonVars, callerVars>>

(***************************************************************************)
(* Bounds                                                                  *)
(***************************************************************************)
MaxNumbers == 2      \* numbers added to one builder
MaxVars == 3         \* variables declared for one layout
MaxOps == 2          \* facade operations in one run
StoreSize == 8       \* cells of every block of the datastore

(***************************************************************************)
(* Integers wider than the checker's machine integers: sign and magnitude, *)
(* the magnitude as five base-65536 digits, most significant first.        *)
(***************************************************************************)
ZeroPad(ds, n) ==
    [i \in 1..n |-> IF i <= n - Len(ds) THEN 0 ELSE ds[i - (n - Len(ds))]]

Pos(ds) == [k |-> "int", neg |-> FALSE, mag |-> ZeroPad(ds, 5)]
Neg(ds) == [k |-> "int", neg |-> TRUE, mag |-> ZeroPad(ds, 5)]
Flt(ws) == [k |-> "flt", bits |-> ws]

Rep(d, n) == [i \in 1..n |-> d]

MagLess(x, y) ==
    \E i \in 1..Len(x) : x[i] < y[i] /\ \A j \in 1..(i - 1) : x[j] = y[j]

\* a <= b on sign-and-magnitude integers (zero is never negative)
Leq(a, b) ==
    IF a.neg /\ ~b.neg THEN TRUE
    ELSE IF ~a.neg /\ b.neg THEN FALSE
    ELSE IF ~a.neg THEN ~MagLess(b.mag, a.mag)
    ELSE ~MagLess(a.mag, b.mag)

(***************************************************************************)
(* Type tags                                                               *)
(***************************************************************************)
IntTags == {"u16", "i16", "u32", "i32", "u64", "i64"}
FloatTags == {"f16", "f32", "f64"}
NumberTags == IntTags \cup FloatTags
\* tags a caller may pass that are not supported
OtherTags == {"i8", "u8", "u128"}

\* size of a number in registers
Words(tag) ==
    CASE tag \in {"u16", "i16", "f16"} -> 1
      [] tag \in {"u32", "i32", "f32"} -> 2
      [] tag \in {"u64", "i64", "f64"} -> 4

Signed(tag) == tag \in {"i16", "i32", "i64"}

MinOf(tag) ==
    IF Signed(tag) THEN Neg(<<32768>> \o Rep(0, Words(tag) - 1)) ELSE Pos(<<>>)

MaxOf(tag) ==
    IF Signed(tag) THEN Pos(<<32767>> \o Rep(65535, Words(tag) - 1))
    ELSE Pos(Rep(65535, Words(tag)))

\* a range check that excludes the largest value of the tag
InRange_ExclusiveMax(tag, v) ==
    Leq(MinOf(tag), v) /\ Leq(v, MaxOf(tag)) /\ v # MaxOf(tag)

InRange(tag, v) == Leq(MinOf(tag), v) /\ Leq(v, MaxOf(tag))

(***************************************************************************)
(* Packing                                                                 *)
(***************************************************************************)
Reverse(s) == [i \in 1..Len(s) |-> s[Len(s) + 1 - i]]

Complement(ws) == [i \in 1..Len(ws) |-> 65535 - ws[i]]

AddOne(ws) ==
    [i \in 1..Len(ws) |->
        IF \A j \in (i + 1)..Len(ws) : ws[j] = 65535
        THEN (ws[i] + 1) % 65536
        ELSE ws[i]]

\* the n low digits of a magnitude
Low(mag, n) == SubSeq(mag, Len(mag) - n + 1, Len(mag))

\* struct.pack("!" + format, value) read as 16-bit words, most significant
\* first: two's complement for integers, the IEEE pattern for floats
PackWords(tag, v) ==
    IF v.k = "flt" THEN v.bits
    ELSE IF v.neg THEN AddOne(Complement(Low(v.mag, Words(tag))))
    ELSE Low(v.mag, Words(tag))

\* struct.unpack("!" + format, bytes)
UnpackWords(tag, ws) ==
    IF tag \in FloatTags THEN Flt(ws)
    ELSE IF Signed(tag) /\ ws[1] >= 32768 THEN Neg(AddOne(Complement(ws)))
    ELSE Pos(ws)

\* one register as two bytes in the given byteorder
PackRegister(byteorder, w) ==
    IF byteorder = ">" THEN <<w \div 256, w % 256>> ELSE <<w % 256, w \div 256>>

UnpackRegister(byteorder, b) ==
    IF byteorder = ">" THEN 256 * b[1] + b[2] ELSE 256 * b[2] + b[1]

OrderWords(wordorder, ws) == IF wordorder = "<" THEN Reverse(ws) ELSE ws

\* an encoder whose little wordorder reverses the bytes of the whole value
EncodeNumber_ReverseBytes(tag, v, byteorder, wordorder) ==
    LET ws == PackWords(tag, v)
        cs == [i \in 1..Len(ws) |-> PackRegister(byteorder, ws[i])]
    IN  IF wordorder = "<"
        THEN [i \in 1..Len(cs) |-> Reverse(cs[Len(cs) + 1 - i])]
        ELSE cs

\* the chunks of one number
EncodeNumber(tag, v, byteorder, wordorder) ==
    LET ws == OrderWords(wordorder, PackWords(tag, v))
    IN  [i \in 1..Len(ws) |-> PackRegister(byteorder, ws[i])]

\* a decoder that reads every value most significant register first
DecodeNumber_IgnoreWordorder(tag, chunks, byteorder, wordorder) ==
    LET ws == [i \in 1..Len(chunks) |-> UnpackRegister(byteorder, chunks[i])]
    IN  UnpackWords(tag, ws)

\* the number held by Words(tag) consecutive chunks
DecodeNumber(tag, chunks, byteorder, wordorder) ==
    LET ws == [i \in 1..Len(chunks) |-> UnpackRegister(byteorder, chunks[i])]
    IN  UnpackWords(tag, OrderWords(wordorder, ws))

(***************************************************************************)
(* _PayloadBuilder and _PayloadDecoder                                     *)
(***************************************************************************)
Orders == {">", "<"}

NoCall == [tag |-> "", value |-> Pos(<<>>), error |-> "none"]

NoDecoder == [payload |-> <<>>, pointer |-> -1, byteorder |-> ">", wordorder |-> ">"]

\* _PayloadBuilder(byteorder, wordorder)
NewBuilder(byteorder, wordorder) ==
    [byteorder |-> byteorder, wordorder |-> wordorder, payload |-> <<>>]

\* the exception add_number raises for (tag, value), or "none"
AddNumberError(tag, v) ==
    IF tag \notin NumberTags THEN "UnknownType"
    ELSE IF tag \in IntTags /\ ~InRange(tag, v) THEN "OutOfBounds"
    ELSE "none"

\* the builder after add_number(tag, value)
AddNumber(b, tag, v) ==
    IF AddNumberError(tag, v) = "none"
    THEN [b EXCEPT !.payload = @ \o EncodeNumber(tag, v, b.byteorder, b.wordorder)]
    ELSE b

\* build(): the list of 2-byte chunks, one per register
Build(b) == b.payload

RECURSIVE Join(_)
\* b"".join(chunks)
Join(chunks) ==
    IF chunks = <<>> THEN <<>> ELSE Head(chunks) \o Join(Tail(chunks))

\* _PayloadDecoder(payload, byteorder, wordorder)
NewDecoder(payload, byteorder, wordorder) ==
    [payload |-> payload, pointer |-> 0, byteorder |-> byteorder,
     wordorder |-> wordorder]

\* the 2-byte groups of the n registers at the decoder's pointer
Registers(d, n) ==
    [i \in 1..n |-> <<d.payload[d.pointer + 2 * i - 1], d.payload[d.pointer + 2 * i]>>]

\* the value decode_number(tag) returns
DecodeNumberAt(d, tag) ==
    DecodeNumber(tag, Registers(d, Words(tag)), d.byteorder, d.wordorder)

\* the decoder after reading n registers
Advance(d, n) == [d EXCEPT !.pointer = @ + 2 * n]

(***************************************************************************)
(* registers.Struct: bit fields packed into one register                   *)
(***************************************************************************)
\* Field(name, format), the format "u<k>" or "s<k>" as its sign and width
Field(name, sign, width) == [name |-> name, sign |-> sign, width |-> width]

FieldNames(fields) == {fields[i].name : i \in 1..Len(fields)}

RECURSIVE TotalWidth(_)
TotalWidth(fields) ==
    IF fields = <<>> THEN 0 ELSE Head(fields).width + TotalWidth(Tail(fields))

\* the least and the greatest value a field holds
FieldMin(f) == IF f.sign = "s" THEN -(2 ^ (f.width - 1)) ELSE 0
FieldMax(f) == IF f.sign = "s" THEN 2 ^ (f.width - 1) - 1 ELSE 2 ^ f.width - 1

\* the bits of a field's value: two's complement in the field's width
FieldBits(f, v) == IF v < 0 THEN v + 2 ^ f.width ELSE v

\* the value of a field's bits
FieldValue(f, bits) ==
    IF f.sign = "s" /\ bits >= 2 ^ (f.width - 1) THEN bits - 2 ^ f.width ELSE bits

RECURSIVE PackFields_LsbFirst(_, _)
\* a packing that puts the first field into the least significant bits
PackFields_LsbFirst(fields, values) ==
    IF fields = <<>> THEN 0
    ELSE FieldBits(Head(fields), values[Head(fields).name])
            + 2 ^ Head(fields).width * PackFields_LsbFirst(Tail(fields), values)

RECURSIVE PackFields(_, _)
\* the fields' bits, the first field most significant, as one number
PackFields(fields, values) ==
    IF fields = <<>> THEN 0
    ELSE LET n == Len(fields) IN
         FieldBits(fields[n], values[fields[n].name])
            + 2 ^ fields[n].width * PackFields(SubSeq(fields, 1, n - 1), values)

\* the builder after add_struct(fields, values): one register
AddStruct(b, fields, values) ==
    [b EXCEPT !.payload = Append(@, PackRegister(b.byteorder, PackFields(fields, values)))]

\* the map Struct.decode returns for the register word w
UnpackFields(fields, w) ==
    [name \in FieldNames(fields) |->
        LET i == CHOOSE j \in 1..Len(fields) : fields[j].name = name
            below == TotalWidth(SubSeq(fields, i + 1, Len(fields)))
        IN  FieldValue(fields[i], (w \div 2 ^ below) % 2 ^ fields[i].width)]

\* the value decode_struct(fields) returns at the decoder's pointer
DecodeStructAt(d, fields) ==
    UnpackFields(fields, UnpackRegister(d.byteorder, Registers(d, 1)[1]))

(***************************************************************************)
(* Variables: coils.Variable, registers.Number, registers.Str              *)
(*                                                                         *)
(* An optional address is a sequence of length at most one: <<>> for None. *)
(***************************************************************************)
None == <<>>
Some(a) == <<a>>

\* registers a string of the given length occupies
StrSize(length) == (length + 1) \div 2

\* the exceptions that apply to coils.Variable(name, size, address)
CoilVariableErrors(size, address) ==
    (IF address # None /\ address[1] < 0 THEN {"NegativeAddress"} ELSE {})
    \cup (IF size < 1 THEN {"InvalidSize"} ELSE {})

CoilVariable(name, size, address) ==
    [name |-> name, kind |-> "coil", type |-> "", length |-> 0,
     size |-> size, address |-> address]

\* the exceptions that apply to registers.Number(name, type, address)
NumberErrors(type, address) ==
    (IF address # None /\ address[1] < 0 THEN {"NegativeAddress"} ELSE {})
    \cup (IF type \notin NumberTags THEN {"UnknownType"} ELSE {})

Number(name, type, address) ==
    [name |-> name, kind |-> "number", type |-> type, length |-> 0,
     size |-> Words(type), address |-> address]

\* the exceptions that apply to registers.Str(name, length, address)
StrErrors(length, address) ==
    IF address # None /\ address[1] < 0 THEN {"NegativeAddress"} ELSE {}

Str(name, length, address) ==
    [name |-> name, kind |-> "str", type |-> "str", length |-> length,
     size |-> StrSize(length), address |-> address]

(***************************************************************************)
(* CoilLayout and RegisterLayout: construction                             *)
(***************************************************************************)
RECURSIVE Address_IgnoreSize(_, _)
\* a placement that puts an implicit variable one cell after the address of
\* its predecessor, whatever the predecessor's size
Address_IgnoreSize(vs, i) ==
    IF vs[i].address # None THEN vs[i].address[1]
    ELSE IF i = 1 THEN 0
    ELSE Address_IgnoreSize(vs, i - 1) + 1

RECURSIVE Address(_, _)
\* the address of the i-th variable: its explicit address, else the end of
\* its predecessor, else 0 for the first variable
Address(vs, i) ==
    IF vs[i].address # None THEN vs[i].address[1]
    ELSE IF i = 1 THEN 0
    ELSE Address(vs, i - 1) + vs[i - 1].size

\* some explicit address lies before the end of the preceding variable
Overlapping(vs) ==
    \E i \in 2..Len(vs) :
        /\ vs[i].address # None
        /\ vs[i].address[1] < Address(vs, i - 1) + vs[i - 1].size

\* a check that compares only neighbouring declarations
Duplicates_Neighbours(vs) ==
    \E i \in 1..(Len(vs) - 1) : vs[i].name = vs[i + 1].name

Duplicates(vs) ==
    \E i, j \in 1..Len(vs) : i # j /\ vs[i].name = vs[j].name

\* the exceptions that apply to the construction of a layout from vs; the
\* check for an empty list comes first, the order of the other two is open
LayoutErrors(vs) ==
    IF vs = <<>> THEN {"NoVariables"}
    ELSE (IF Duplicates(vs) THEN {"DuplicateVariable"} ELSE {})
         \cup (IF Overlapping(vs) THEN {"InvalidAddressLayout"} ELSE {})

\* the variables of the layout, every one with its address
Placed(vs) ==
    [i \in 1..Len(vs) |-> [vs[i] EXCEPT !.address = Address(vs, i)]]

NoLayout ==
    [status |-> "none", kind |-> "", variables |-> <<>>,
     byteorder |-> ">", wordorder |-> ">"]

FailedLayout(kind, err) == [NoLayout EXCEPT !.status = err, !.kind = kind]

\* CoilLayout(variables) / RegisterLayout(variables, byteorder, wordorder)
NewLayout(kind, vs, byteorder, wordorder) ==
    [status |-> "ok", kind |-> kind, variables |-> Placed(vs),
     byteorder |-> byteorder, wordorder |-> wordorder]

End(v) == v.address + v.size

\* layout.address, layout.end, layout.size
LayoutAddress(l) == l.variables[1].address
LayoutEnd(l) == End(l.variables[Len(l.variables)])
LayoutSize(l) == LayoutEnd(l) - LayoutAddress(l)

LayoutNames(l) == {l.variables[i].name : i \in 1..Len(l.variables)}

\* the variable of the layout with the given name
VariableNamed(l, name) ==
    l.variables[CHOOSE i \in 1..Len(l.variables) : l.variables[i].name = name]

(***************************************************************************)
(* Encoding of one variable                                                *)
(***************************************************************************)
Bit(b) == [k |-> "bit", b |-> b]
Bits(bs) == [k |-> "bits", bs |-> bs]
String(cs) == [k |-> "str", s |-> cs]

\* the string right-padded with blanks to n bytes
Pad(cs, n) == [i \in 1..n |-> IF i <= Len(cs) THEN cs[i] ELSE 32]

\* a byte string of even length as 2-byte chunks
Pairs(bytes) == [i \in 1..(Len(bytes) \div 2) |-> <<bytes[2 * i - 1], bytes[2 * i]>>]

\* Variable.encode: the bits of a coil variable, the chunks of a register
\* variable
EncodeVariable(l, v, val) ==
    CASE v.kind = "coil" -> IF v.size = 1 THEN <<val.b>> ELSE val.bs
      [] v.kind = "number" -> EncodeNumber(v.type, val, l.byteorder, l.wordorder)
      [] v.kind = "str" -> Pairs(Pad(val.s, 2 * v.size))

(***************************************************************************)
(* Decoding of one variable, decode_registers and decode_coils             *)
(***************************************************************************)
\* Variable.decode on the cells of the variable: bits of a coil variable,
\* 2-byte groups of a register variable
DecodeVariable(l, v, cells) ==
    CASE v.kind = "coil" -> IF v.size = 1 THEN Bit(cells[1]) ELSE Bits(cells)
      [] v.kind = "number" -> DecodeNumber(v.type, cells, l.byteorder, l.wordorder)
      [] v.kind = "str" -> String(SubSeq(Join(cells), 1, v.length))

\* the two bytes of a register of the datastore, high byte first
RegisterBytes(r) == <<r \div 256, r % 256>>

\* the cells of variable v in a readout that starts at layout.address
CellsOf(l, v, raw) ==
    SubSeq(raw, v.address - LayoutAddress(l) + 1, End(v) - LayoutAddress(l))

\* the names a read returns: all of the layout when variables is None
Requested(l, variables) ==
    IF variables = None THEN LayoutNames(l) ELSE variables[1]

\* layout.decode_registers(registers, variables) and
\* layout.decode_coils(bits, variables)
Decode(l, raw, variables) ==
    IF Requested(l, variables) \ LayoutNames(l) # {}
    THEN [error |-> "VariableNotFound", result |-> <<>>]
    ELSE [error |-> "none",
          result |-> [n \in Requested(l, variables) |->
                         DecodeVariable(l, VariableNamed(l, n),
                            CellsOf(l, VariableNamed(l, n),
                               IF l.kind = "RegisterLayout"
                               THEN [i \in 1..Len(raw) |-> RegisterBytes(raw[i])]
                               ELSE raw))]]

(***************************************************************************)
(* build_payload                                                           *)
(***************************************************************************)
Chunk(address, values) == [address |-> address, values |-> values]

\* a lookup that stops at the first key it does not find
UnknownKeys_First(l, values) ==
    IF DOMAIN values \ LayoutNames(l) = {} THEN {}
    ELSE {CHOOSE n \in DOMAIN values \ LayoutNames(l) : TRUE}

UnknownKeys(l, values) == DOMAIN values \ LayoutNames(l)

\* a planner that merges every written variable into the chunk before it
Continues_Always(l, values, i) ==
    i > 1 /\ \E j \in 1..(i - 1) : l.variables[j].name \in DOMAIN values

\* the i-th variable continues the chunk of the variable before it
Continues(l, values, i) ==
    /\ i > 1
    /\ l.variables[i - 1].name \in DOMAIN values
    /\ End(l.variables[i - 1]) = l.variables[i].address

RECURSIVE Plan_MoveAddress(_, _, _, _)
\* a planner that moves the address of a chunk to the variable merged last
Plan_MoveAddress(l, values, i, chunks) ==
    IF i > Len(l.variables) THEN chunks
    ELSE LET v == l.variables[i]
         IN  IF v.name \notin DOMAIN values
             THEN Plan_MoveAddress(l, values, i + 1, chunks)
             ELSE LET enc == EncodeVariable(l, v, values[v.name])
                  IN  IF Continues(l, values, i)
                      THEN Plan_MoveAddress(l, values, i + 1,
                                [chunks EXCEPT ![Len(chunks)] =
                                    Chunk(v.address, @.values \o enc)])
                      ELSE Plan_MoveAddress(l, values, i + 1,
                                Append(chunks, Chunk(v.address, enc)))

RECURSIVE Plan(_, _, _, _)
\* the chunks of the variables i.. appended to the chunks built so far
Plan(l, values, i, chunks) ==
    IF i > Len(l.variables) THEN chunks
    ELSE LET v == l.variables[i]
         IN  IF v.name \notin DOMAIN values THEN Plan(l, values, i + 1, chunks)
             ELSE LET enc == EncodeVariable(l, v, values[v.name])
                  IN  IF Continues(l, values, i)
                      THEN Plan(l, values, i + 1,
                                [chunks EXCEPT ![Len(chunks)].values = @ \o enc])
                      ELSE Plan(l, values, i + 1,
                                Append(chunks, Chunk(v.address, enc)))

\* the exception the encoding of the values raises, or "none": that of the
\* first number of the layout that add_number refuses
EncodingError(l, values) ==
    LET bad == {i \in 1..Len(l.variables) :
                   /\ l.variables[i].name \in DOMAIN values
                   /\ l.variables[i].kind = "number"
                   /\ AddNumberError(l.variables[i].type,
                                     values[l.variables[i].name]) # "none"}
        v == l.variables[CHOOSE i \in bad : \A j \in bad : i <= j]
    IN  IF bad = {} THEN "none" ELSE AddNumberError(v.type, values[v.name])

\* the outcome of layout.build_payload(values)
BuildPayload(l, values) ==
    IF UnknownKeys(l, values) # {}
    THEN [values |-> values, error |-> "VariableNotFound",
          unknown |-> UnknownKeys(l, values), chunks |-> <<>>]
    ELSE IF EncodingError(l, values) # "none"
    THEN [values |-> values, error |-> EncodingError(l, values),
          unknown |-> {}, chunks |-> <<>>]
    ELSE [values |-> values, error |-> "none", unknown |-> {},
          chunks |-> Plan(l, values, 1, <<>>)]

NoPayload == [values |-> <<>>, error |-> "idle", unknown |-> {}, chunks |-> <<>>]

NoArgs == [name |-> "", size |-> 0, type |-> "", address |-> None]

NoCtor == [op |-> "", args |-> NoArgs, error |-> "none"]

\* the layout variables while no layout is under construction
LayoutIdle ==
    /\ declared = <<>>
    /\ ctor = NoCtor
    /\ layout = NoLayout
    /\ built = NoPayload

\* a call of the transport: the method, its address, count and values, the unit
Rpc(fn, address, count, values, unit) ==
    [fn |-> fn, address |-> address, count |-> count, values |-> values,
     unit |-> unit]

NoRpc == Rpc("", 0, 0, <<>>, 0)

\* the items of the command queue: an RpcCall or DISCONNECT
Command(rpc) == [kind |-> "RpcCall", rpc |-> rpc]
DISCONNECT == [kind |-> "DISCONNECT", rpc |-> NoRpc]

\* the items of the response queue: CONNECTED, the echo of DISCONNECT, an
\* UnhandledException with its error, or the response of the transport
Message(kind, error, function_code, data) ==
    [kind |-> kind, error |-> error, function_code |-> function_code,
     data |-> data]

CONNECTED == Message("CONNECTED", "", 0, <<>>)
DisconnectEcho == Message("DISCONNECT", "", 0, <<>>)
UnhandledException(error) == Message("UnhandledException", error, 0, <<>>)
Response(function_code, data) == Message("response", "", function_code, data)
NoMessage == Message("", "", 0, <<>>)

NoRequest ==
    [facade |-> "", name |-> "", space |-> "", unit |-> 0, values |-> <<>>,
     variables |-> None, var |-> None, timeout |-> None, pending |-> <<>>,
     pc |-> "idle", error |-> "none", result |-> <<>>, sent |-> <<>>,
     wire |-> <<>>, response |-> NoMessage, carries |-> NoMessage]

NoWorker == [pc |-> "unstarted", rpc |-> NoRpc]

NoWrite == [unit |-> -1, space |-> "", values |-> <<>>]

\* no daemon object: the fields are those of AsyncDaemon and DaemonThread
\* (_period, _event, _queue), the position pc of the thread or task, the
\* exception error of a finished task, and the locals of the loop and the job
NoDaemon ==
    [variant |-> "", period |-> 0, event |-> FALSE, pc |-> "none", queue |-> <<>>,
     error |-> "none", start |-> 0, elapsed |-> 0, wait |-> 0, seen |-> <<>>]

NoMade == [variant |-> "", period |-> 0, error |-> "none"]

\* no second thread has called the Client
CallersIdle == other = NoRequest

\* the daemon variables while no daemon is in use
DaemonIdle ==
    /\ daemon = NoDaemon
    /\ made = NoMade

\* the codec variables while no builder is in use
CodecIdle ==
    /\ builder = NewBuilder(">", ">")
    /\ added = <<>>
    /\ call = NoCall
    /\ decoder = NoDecoder
    /\ decoded = <<>>

(***************************************************************************)
(* ServerContextLayout and the datastore                                   *)
(***************************************************************************)
Spaces == {"h", "i", "c", "d"}
RegisterSpaces == {"h", "i"}

SlaveContextLayout(h, i, c, d) == [h |-> h, i |-> i, c |-> c, d |-> d]

\* the unit of the context the daemons work on
DaemonUnit == 4

\* a unit whose holding registers reach beyond the blocks of the datastore:
\* the server refuses the requests for its registers from address 8 on
WideUnit == 5

\* the units ServerContextLayout has an entry for
LayoutUnits == 0..2 \cup {DaemonUnit, WideUnit}

\* the layouts of the units: unit 0 with all four sub-spaces, unit 1 with
\* registers only, unit 2 with layouts but no datastore; unit 3 has no entry;
\* the unit of the daemons with the layout of tests/test_daemon.py, two
\* i32 numbers x and y that are not neighbours and the coil result
ServerLayout ==
    [u \in LayoutUnits |->
        CASE u = 0 ->
               SlaveContextLayout(
                  Some(NewLayout("RegisterLayout",
                          << Str("str", 3, Some(1)), Number("i", "i32", None),
                             Number("f", "f16", Some(6)) >>, "<", ">")),
                  Some(NewLayout("RegisterLayout",
                          << Number("a", "u16", None), Number("b", "i32", None) >>,
                          ">", ">")),
                  Some(NewLayout("CoilLayout",
                          << CoilVariable("x", 2, None), CoilVariable("y", 1, Some(3)),
                             CoilVariable("z", 2, None) >>, ">", ">")),
                  Some(NewLayout("CoilLayout",
                          << CoilVariable("a", 1, None), CoilVariable("b", 2, None) >>,
                          ">", ">")))
          [] u = 1 ->
               SlaveContextLayout(
                  Some(NewLayout("RegisterLayout",
                          << Number("i", "i32", Some(1)), Number("a", "u16", None) >>,
                          "<", "<")),
                  Some(NewLayout("RegisterLayout",
                          << Number("b", "i32", Some(2)) >>, ">", "<")),
                  None, None)
          [] u = 2 ->
               SlaveContextLayout(
                  Some(NewLayout("RegisterLayout", << Number("i", "i32", None) >>,
                          ">", ">")),
                  Some(NewLayout("RegisterLayout", << Number("i", "i32", None) >>,
                          ">", ">")),
                  Some(NewLayout("CoilLayout", << CoilVariable("x", 1, None) >>,
                          ">", ">")),
                  Some(NewLayout("CoilLayout", << CoilVariable("x", 1, None) >>,
                          ">", ">")))
          [] u = DaemonUnit ->
               SlaveContextLayout(
                  Some(NewLayout("RegisterLayout",
                          << Number("x", "i32", Some(1)), Number("y", "i32", Some(4)) >>,
                          ">", ">")),
                  None, None,
                  Some(NewLayout("CoilLayout", << CoilVariable("result", 1, Some(3)) >>,
                          ">", ">")))
          [] u = WideUnit ->
               SlaveContextLayout(
                  Some(NewLayout("RegisterLayout",
                          << Number("a", "u16", Some(1)), Number("b", "u16", Some(4)),
                             Number("c", "u16", Some(8)), Number("d", "u16", Some(10)) >>,
                          ">", ">")),
                  None, None, None)]

Units == 0..3 \cup {WideUnit}

\* the units of the datastore
StoreUnits == {0, 1, 3, WideUnit}

\* a _get that answers None for a unit without layouts
Get_MissingSlaveAsNone(unit, space) ==
    IF unit \notin LayoutUnits
    THEN [error |-> "none", layout |-> None]
    ELSE [error |-> "none", layout |-> ServerLayout[unit][space]]

\* ServerContextLayout._get: the sub-layout, None, or NoSuchSlaveLayout
Get(unit, space) ==
    IF unit \notin LayoutUnits
    THEN [error |-> "NoSuchSlaveLayout", layout |-> None]
    ELSE [error |-> "none", layout |-> ServerLayout[unit][space]]

\* ServerContextLayout._get_fallible on the answer of _get
Fallible(got) ==
    IF got.error # "none" THEN got
    ELSE IF got.layout = None
    THEN [error |-> "MissingSubLayout", layout |-> None]
    ELSE got

\* ServerContextLayout._get_fallible
GetFallible(unit, space) == Fallible(Get(unit, space))

EmptyBlock == [a \in 0..(StoreSize - 1) |-> 0]

\* ModbusSequentialDataBlock.getValues(address, count)
GetValues(block, address, count) == [i \in 1..count |-> block[address + i - 1]]

\* ModbusSequentialDataBlock.setValues(address, values)
SetValues(block, address, values) ==
    [a \in DOMAIN block |->
        IF address <= a /\ a < address + Len(values)
        THEN values[a - address + 1]
        ELSE block[a]]

\* two bytes read with the low byte first
BytesTo16BitInt_LittleEndian(b) == b[1] + 256 * b[2]

\* context._bytes_to_16bit_int
BytesTo16BitInt(b) == 256 * b[1] + b[2]

\* the cells a chunk is stored as: registers as integers, coils as they are
Cells(space, chunk) ==
    IF space \in RegisterSpaces
    THEN [i \in 1..Len(chunk.values) |-> BytesTo16BitInt(chunk.values[i])]
    ELSE chunk.values

\* the bits of a read response: padded with zeros to whole bytes
ResponseBits(bits) ==
    [i \in 1..(8 * ((Len(bits) + 7) \div 8)) |-> IF i <= Len(bits) THEN bits[i] ELSE 0]

\* the facade variables while no facade is in use
FacadeIdle ==
    /\ store = [u \in StoreUnits |-> [sp \in Spaces |-> EmptyBlock]]
    /\ req = NoRequest
    /\ active = FALSE
    /\ lastWrite = NoWrite
    /\ nops = 0
    /\ worker = NoWorker
    /\ commands = <<>>
    /\ responses = <<>>
    /\ phase = "created"

(***************************************************************************)
(* Inputs of the codec                                                     *)
(***************************************************************************)
Values(tag) ==
    CASE tag = "i16" -> {Pos(<<777>>), Neg(<<555>>), Neg(<<32768>>), Pos(<<32767>>),
                         Pos(<<32768>>), Neg(<<32769>>)}
      [] tag = "u16" -> {Pos(<<>>), Pos(<<64981>>), Pos(<<65535>>),
                         Pos(<<1, 0>>), Neg(<<1>>)}
      [] tag = "i32" -> {Pos(<<1024, 0>>), Neg(<<8478, 52569>>), Neg(<<32768, 0>>),
                         Pos(<<32767, 65535>>), Pos(<<32768, 0>>), Neg(<<32768, 1>>)}
      [] tag = "u32" -> {Pos(<<>>), Pos(<<57057, 12967>>), Pos(<<65535, 65535>>),
                         Pos(<<1, 0, 0>>), Neg(<<1>>)}
      [] tag = "i64" -> {Pos(<<1024, 3, 1026, 16>>), Pos(<<1>>),
                         Neg(<<438, 39755, 44240, 24341>>),
                         Neg(<<32768, 0, 0, 0>>), Pos(<<32767, 65535, 65535, 65535>>),
                         Pos(<<32768, 0, 0, 0>>), Neg(<<32768, 0, 0, 1>>)}
      [] tag = "u64" -> {Pos(<<>>), Pos(<<65097, 25780, 21295, 41195>>),
                         Pos(<<65535, 65535, 65535, 65535>>),
                         Pos(<<1, 0, 0, 0, 0>>), Neg(<<1>>)}
      [] tag = "f16" -> {Flt(<<17101>>)}
      [] tag = "f32" -> {Flt(<<16256, 0>>)}
      [] tag = "f64" -> {Flt(<<16393, 8388, 39845, 58196>>)}
      [] OTHER -> {Pos(<<>>), Pos(<<1, 0>>)}

(***************************************************************************)
(* SpecCodec                                                               *)
(***************************************************************************)
InitCodec ==
    /\ \E bo \in Orders, wo \in Orders : builder = NewBuilder(bo, wo)
    /\ added = <<>>
    /\ call = NoCall
    /\ decoder = NoDecoder
    /\ decoded = <<>>
    /\ LayoutIdle
    /\ FacadeIdle
    /\ env = "plain"
    /\ DaemonIdle
    /\ CallersIdle

\* a fresh builder replaces the current one
new_builder ==
    /\ \E bo \in Orders, wo \in Orders : builder' = NewBuilder(bo, wo)
    /\ added' = <<>>
    /\ call' = NoCall
    /\ decoder' = NoDecoder
    /\ decoded' = <<>>

add_number ==
    /\ Len(added) < MaxNumbers
    /\ decoder = NoDecoder
    /\ \E tag \in NumberTags \cup OtherTags :
         \E v \in Values(tag) :
            /\ builder' = AddNumber(builder, tag, v)
            /\ call' = [tag |-> tag, value |-> v, error |-> AddNumberError(tag, v)]
            /\ added' = IF AddNumberError(tag, v) = "none"
                        THEN Append(added, [tag |-> tag, value |-> v])
                        ELSE added
    /\ UNCHANGED <<decoder, decoded>>

\* a decoder over the concatenation of the builder's chunks
new_decoder ==
    /\ decoder = NoDecoder
    /\ added # <<>>
    /\ decoder' = NewDecoder(Join(Build(builder)), builder.byteorder, builder.wordorder)
    /\ UNCHANGED <<builder, added, call, decoded>>

\* Number(tag).decode(decoder) for the next number of the payload
decode_number ==
    /\ decoder # NoDecoder
    /\ Len(decoded) < Len(added)
    /\ LET tag == added[Len(decoded) + 1].tag
       IN  /\ decoded' = Append(decoded, DecodeNumberAt(decoder, tag))
           /\ decoder' = Advance(decoder, Words(tag))
    /\ UNCHANGED <<builder, added, call>>

NextCodec ==
    \/ new_builder /\ UNCHANGED <<layoutVars, facadeVars, daemonVars, callerVars>>
    \/ add_number /\ UNCHANGED <<layoutVars, facadeVars, daemonVars, callerVars>>
    \/ new_decoder /\ UNCHANGED <<layoutVars, facadeVars, daemonVars, callerVars>>
    \/ decode_number /\ UNCHANGED <<layoutVars, facadeVars, daemonVars, callerVars>>

SpecCodec == InitCodec /\ [][NextCodec]_vars

(***************************************************************************)
(* SpecStruct: Struct.encode and Struct.decode over a builder and decoder  *)
(***************************************************************************)
\* the field lists of the structs: those of tests/test_registers.py, one
\* with signed fields, one of a single bit and one of 16 bits
StructInputs ==
    { << Field("CHANGED", "u", 1), Field("ELEMENT_TYPE", "u", 7),
         Field("ELEMENT_ID", "u", 8) >>,
      << Field("CHANGED", "u", 1), Field("ELEMENT_TYPE", "u", 7),
         Field("ELEMENT_ID", "u", 5) >>,
      << Field("a", "s", 4), Field("b", "u", 3), Field("c", "s", 7) >>,
      << Field("a", "u", 1) >>,
      << Field("a", "s", 16) >> }

\* the sample value of a field: that of the tests where there is one
FieldSample(f) ==
    CASE f.name = "ELEMENT_TYPE" -> 33
      [] f.name = "ELEMENT_ID" -> 7
      [] f.name = "c" -> -3
      [] OTHER -> FieldMax(f)

\* the values maps a struct is encoded with: all fields at their least,
\* greatest or sample value, or one field off its greatest value
StructValues(fields) ==
    { [name \in FieldNames(fields) |->
          LET f == fields[CHOOSE j \in 1..Len(fields) : fields[j].name = name]
          IN  CASE pick[name] = "min" -> FieldMin(f)
                [] pick[name] = "max" -> FieldMax(f)
                [] OTHER -> FieldSample(f)] :
       pick \in { q \in [FieldNames(fields) -> {"min", "max", "sample"}] :
                     \/ \A m, n \in FieldNames(fields) : q[m] = q[n]
                     \/ Cardinality({n \in FieldNames(fields) : q[n] # "max"}) = 1 } }

InitStruct == InitCodec

\* Struct("", fields).encode(builder, values)
encode_struct ==
    /\ Len(added) < MaxNumbers
    /\ decoder = NoDecoder
    /\ \E fields \in StructInputs :
         \E values \in StructValues(fields) :
            /\ builder' = AddStruct(builder, fields, values)
            /\ call' = [tag |-> "struct", value |-> values, error |-> "none"]
            /\ added' = Append(added, [tag |-> fields, value |-> values])
    /\ UNCHANGED <<decoder, decoded>>

\* Struct("", fields).decode(decoder) for the next struct of the payload
decode_struct ==
    /\ decoder # NoDecoder
    /\ Len(decoded) < Len(added)
    /\ decoded' = Append(decoded, DecodeStructAt(decoder, added[Len(decoded) + 1].tag))
    /\ decoder' = Advance(decoder, 1)
    /\ UNCHANGED <<builder, added, call>>

NextStruct ==
    \/ new_builder /\ UNCHANGED <<layoutVars, facadeVars, daemonVars, callerVars>>
    \/ encode_struct /\ UNCHANGED <<layoutVars, facadeVars, daemonVars, callerVars>>
    \/ new_decoder /\ UNCHANGED <<layoutVars, facadeVars, daemonVars, callerVars>>
    \/ decode_struct /\ UNCHANGED <<layoutVars, facadeVars, daemonVars, callerVars>>

SpecStruct == InitStruct /\ [][NextStruct]_vars

(***************************************************************************)
(* Properties of the codec                                                 *)
(***************************************************************************)
RECURSIVE Offset(_)
\* the number of registers the first i accepted numbers occupy
Offset(i) == IF i = 0 THEN 0 ELSE Offset(i - 1) + Words(added[i].tag)

\* the chunks the builder emitted for the i-th accepted number
ChunksOf(i) == SubSeq(Build(builder), Offset(i - 1) + 1, Offset(i))

\* C3: for every integer tag, byteorder, wordorder and value in the tag's
\* range, the builder emits exactly size(tag) chunks of two bytes (1, 2 or 4),
\* and decoding the concatenation of the chunks with a decoder of the same
\* byteorder and wordorder returns the original value.
C3_RoundTrip ==
    /\ Len(Build(builder)) = Offset(Len(added))
    /\ \A i \in 1..Len(added) :
         added[i].tag \in IntTags =>
            /\ Len(ChunksOf(i)) \in {1, 2, 4}
            /\ Len(ChunksOf(i)) =
                  (CASE added[i].tag \in {"u16", "i16"} -> 1
                     [] added[i].tag \in {"u32", "i32"} -> 2
                     [] added[i].tag \in {"u64", "i64"} -> 4)
            /\ \A k \in 1..Len(ChunksOf(i)) : Len(ChunksOf(i)[k]) = 2
    /\ decoder # NoDecoder =>
         /\ decoder.byteorder = builder.byteorder
         /\ decoder.wordorder = builder.wordorder
         /\ decoder.payload = Join(Build(builder))
    /\ \A i \in 1..Len(decoded) :
         added[i].tag \in IntTags => decoded[i] = added[i].value

\* a negative 64-bit value and an unsigned 32-bit value above 2^31 have been
\* encoded and decoded under little byteorder and little wordorder
C3_Witness ==
    /\ builder.byteorder = "<"
    /\ builder.wordorder = "<"
    /\ Len(decoded) = 2
    /\ added[1] = [tag |-> "i64", value |-> Neg(<<438, 39755, 44240, 24341>>)]
    /\ added[2] = [tag |-> "u32", value |-> Pos(<<57057, 12967>>)]
    /\ decoded[1] = Neg(<<438, 39755, 44240, 24341>>)

SwapBytes(chunks) == [i \in 1..Len(chunks) |-> <<chunks[i][2], chunks[i][1]>>]

OtherOrder(o) == IF o = ">" THEN "<" ELSE ">"

\* the two's complement of an integer in n 16-bit words, weight n-1 first
TwosComplement(v, n) ==
    IF v.neg THEN AddOne(Complement(Low(v.mag, n))) ELSE Low(v.mag, n)

\* C4: when the builder encodes an integer spanning n registers, wordorder
\* big puts the most significant 16-bit word in the first chunk and little
\* the least significant word first; byteorder big puts the high byte of each
\* word first and little the low byte first; the orders are independent:
\* changing only the byteorder swaps the two bytes of every chunk, changing
\* only the wordorder reverses the chunks of the value (i32 0x04000000 gives
\* [00 04, 00 00] for little/big, [00 00, 00 04] for little/little and
\* [04 00, 00 00] for big/big).
C4_Orders ==
    \A i \in 1..Len(added) :
       added[i].tag \in IntTags =>
          LET n == Len(ChunksOf(i))
              cs == ChunksOf(i)
              v == added[i].value
              tag == added[i].tag
              w == TwosComplement(v, n)
              bo == builder.byteorder
              wo == builder.wordorder
              word(k) == IF wo = ">" THEN w[k] ELSE w[n + 1 - k]
          IN  /\ \A k \in 1..n :
                    IF bo = ">"
                    THEN cs[k] = <<word(k) \div 256, word(k) % 256>>
                    ELSE cs[k] = <<word(k) % 256, word(k) \div 256>>
              /\ EncodeNumber(tag, v, OtherOrder(bo), wo) = SwapBytes(cs)
              /\ EncodeNumber(tag, v, bo, OtherOrder(wo)) = Reverse(cs)
              /\ (tag = "i32" /\ v = Pos(<<1024, 0>>)) =>
                    /\ (bo = "<" /\ wo = ">") => cs = << <<0, 4>>, <<0, 0>> >>
                    /\ (bo = "<" /\ wo = "<") => cs = << <<0, 0>>, <<0, 4>> >>
                    /\ (bo = ">" /\ wo = ">") => cs = << <<4, 0>>, <<0, 0>> >>

\* i32 0x04000000 has been encoded by a builder of little byteorder and
\* little wordorder
C4_Witness ==
    /\ builder.byteorder = "<"
    /\ builder.wordorder = "<"
    /\ Len(added) >= 1
    /\ added[1] = [tag |-> "i32", value |-> Pos(<<1024, 0>>)]
    /\ Build(builder)[2] = <<0, 4>>

\* the integer ranges as the documentation states them
C8_Range(tag) ==
    CASE tag = "i16" -> <<Neg(<<32768>>), Pos(<<32767>>)>>
      [] tag = "u16" -> <<Pos(<<0>>), Pos(<<65535>>)>>
      [] tag = "i32" -> <<Neg(<<32768, 0>>), Pos(<<32767, 65535>>)>>
      [] tag = "u32" -> <<Pos(<<0>>), Pos(<<65535, 65535>>)>>
      [] tag = "i64" -> <<Neg(<<32768, 0, 0, 0>>), Pos(<<32767, 65535, 65535, 65535>>)>>
      [] tag = "u64" -> <<Pos(<<0>>), Pos(<<65535, 65535, 65535, 65535>>)>>

C8_Outside(tag, v) ==
    \/ ~Leq(C8_Range(tag)[1], v)
    \/ ~Leq(v, C8_Range(tag)[2])

\* C8: add_number(tag, value) fails with OutOfBounds iff tag is an integer
\* tag and value lies outside the tag's range (i16: [-32768, 32767], u16:
\* [0, 65535], analogously for 32 and 64 bits) and fails with UnknownType iff
\* tag is 8-bit or not one of the supported tags; when it fails nothing is
\* appended to the builder's output.
C8_AddNumberErrors ==
    /\ [](call # NoCall =>
            /\ call.error = "OutOfBounds" <=>
                  (call.tag \in IntTags /\ C8_Outside(call.tag, call.value))
            /\ call.error = "UnknownType" <=>
                  call.tag \notin {"u16", "i16", "u32", "i32", "u64", "i64",
                                   "f16", "f32", "f64"}
            /\ call.error \in {"none", "OutOfBounds", "UnknownType"})
    /\ [][(call' # NoCall /\ call'.error # "none") => builder' = builder]_vars

\* add_number has rejected i16 32768 on a builder that already holds a number
C8_Witness ==
    /\ call = [tag |-> "i16", value |-> Pos(<<32768>>), error |-> "OutOfBounds"]
    /\ Len(Build(builder)) > 0

(***************************************************************************)
(* Inputs of layout construction and of build_payload                      *)
(***************************************************************************)
Names == {"x", "y", "z"}
CoilSizes == {-3, 0, 1, 2}
AddressInputs == {None, Some(-1), Some(1), Some(3)}
NumberTypes == {"u16", "i32", "i8"}

\* tests/test_coils.py: the layout fixture
CoilFixture ==
    << CoilVariable("x", 3, Some(2)), CoilVariable("y", 1, Some(7)),
       CoilVariable("z", 5, None), CoilVariable("u", 1, None),
       CoilVariable("v", 2, None) >>

\* tests/test_registers.py: the layout fixture, without its bit-field record
RegisterFixture ==
    << Str("str", 5, Some(2)), Number("i", "i32", None),
       Number("f", "f16", Some(20)) >>

\* the p-th sample value of a variable, p in 1..2
SampleValue(v, p) ==
    CASE v.kind = "coil" /\ v.size = 1 -> Bit(p % 2)
      [] v.kind = "coil" /\ v.size # 1 -> Bits([i \in 1..v.size |-> (i + p) % 2])
      [] v.kind = "number" /\ v.type = "u16" ->
            IF p = 1 THEN Pos(<<64981>>) ELSE Pos(<<65535>>)
      [] v.kind = "number" /\ v.type = "i32" ->
            IF p = 1 THEN Pos(<<1024, 0>>) ELSE Neg(<<8478, 52569>>)
      [] v.kind = "number" /\ v.type = "f16" ->
            IF p = 1 THEN Flt(<<17101>>) ELSE Flt(<<0>>)
      [] v.kind = "str" ->
            IF p = 1 THEN String([i \in 1..v.length |-> 64 + i])
            ELSE String([i \in 1..(v.length - 1) |-> 96 + i])

\* the values map that gives every declared name of the set written its
\* p-th sample value and a value to every name of the set unknown
ValuesMap(l, written, p, unknown) ==
    [n \in written \cup unknown |->
        IF n \in written THEN SampleValue(VariableNamed(l, n), p) ELSE Bit(0)]

UnknownInputs == {{}, {"a"}, {"a", "spam"}}

\* a value above the range of every integer tag of the width of the tag
Over(tag) == Pos(<<1>> \o Rep(0, Words(tag)))

\* the values map that gives every name of the layout its first sample value,
\* but the last integer of the layout a value out of its range
OverflowMap(l) ==
    LET ints == {i \in 1..Len(l.variables) :
                    l.variables[i].kind = "number" /\ l.variables[i].type \in IntTags}
    IN  [n \in LayoutNames(l) |->
            IF ints # {} /\ n = l.variables[CHOOSE i \in ints : \A j \in ints : j <= i].name
            THEN Over(VariableNamed(l, n).type)
            ELSE SampleValue(VariableNamed(l, n), 1)]

\* tests/test_coils.py: the values map of test_build_payload
CoilFixtureValues ==
    [n \in {"x", "y", "z", "v"} |->
        CASE n = "x" -> Bits(<<0, 1, 0>>)
          [] n = "y" -> Bit(1)
          [] n = "z" -> Bits(<<0, 0, 1, 1, 0>>)
          [] n = "v" -> Bits(<<0, 1>>)]

\* the values maps build_payload is called with
ValuesInputs(l) ==
    {ValuesMap(l, written, p, unknown) :
        written \in SUBSET LayoutNames(l), p \in 1..2, unknown \in UnknownInputs}
    \cup (IF l.variables = Placed(CoilFixture) THEN {CoilFixtureValues} ELSE {})

(***************************************************************************)
(* SpecLayout                                                              *)
(***************************************************************************)
InitLayout ==
    /\ LayoutIdle
    /\ CodecIdle
    /\ FacadeIdle
    /\ env = "plain"
    /\ DaemonIdle
    /\ CallersIdle

Declaring(kinds) ==
    /\ layout.status = "none"
    /\ Len(declared) < MaxVars
    /\ \A i \in 1..Len(declared) : declared[i].kind \in kinds

\* the constructor call either yields the Variable, which joins the list
\* under construction, or raises, and the list is dropped with it
Declare(op, args, v, errors) ==
    IF errors = {}
    THEN /\ declared' = Append(declared, v)
         /\ ctor' = [op |-> op, args |-> args, error |-> "none"]
         /\ UNCHANGED <<layout, built>>
    ELSE /\ \E e \in errors : ctor' = [op |-> op, args |-> args, error |-> e]
         /\ declared' = <<>>
         /\ UNCHANGED <<layout, built>>

\* coils.Variable(name, size, address)
coil_variable ==
    /\ Declaring({"coil"})
    /\ \E name \in Names, size \in CoilSizes, address \in AddressInputs :
          Declare("Variable",
                  [name |-> name, size |-> size, type |-> "", address |-> address],
                  CoilVariable(name, size, address),
                  CoilVariableErrors(size, address))

\* registers.Number(name, type, address)
number_variable ==
    /\ Declaring({"number", "str"})
    /\ \E name \in Names, type \in NumberTypes, address \in AddressInputs :
          Declare("Number",
                  [name |-> name, size |-> 0, type |-> type, address |-> address],
                  Number(name, type, address),
                  NumberErrors(type, address))

\* the variable lists of the test suites
fixture ==
    /\ layout.status = "none"
    /\ declared = <<>>
    /\ declared' \in {CoilFixture, RegisterFixture}
    /\ ctor' = [op |-> "fixture", args |-> NoArgs, error |-> "none"]
    /\ UNCHANGED <<layout, built>>

Construct(kind, byteorder, wordorder) ==
    /\ layout.status = "none"
    /\ IF LayoutErrors(declared) = {}
       THEN /\ layout' = NewLayout(kind, declared, byteorder, wordorder)
            /\ ctor' = [op |-> kind, args |-> NoArgs, error |-> "none"]
       ELSE \E e \in LayoutErrors(declared) :
               /\ layout' = FailedLayout(kind, e)
               /\ ctor' = [op |-> kind, args |-> NoArgs, error |-> e]
    /\ UNCHANGED <<declared, built>>

\* CoilLayout(declared)
coil_layout ==
    /\ \A i \in 1..Len(declared) : declared[i].kind = "coil"
    /\ Construct("CoilLayout", ">", ">")

\* RegisterLayout(declared, byteorder, wordorder)
register_layout ==
    /\ \A i \in 1..Len(declared) : declared[i].kind \in {"number", "str"}
    /\ \E bo \in Orders, wo \in Orders : Construct("RegisterLayout", bo, wo)

\* layout.build_payload(values)
build_payload ==
    /\ layout.status = "ok"
    /\ built = NoPayload
    /\ \E values \in ValuesInputs(layout) : built' = BuildPayload(layout, values)
    /\ UNCHANGED <<declared, ctor, layout>>

NextLayout ==
    \/ coil_variable /\ UNCHANGED <<codecVars, facadeVars, daemonVars, callerVars>>
    \/ number_variable /\ UNCHANGED <<codecVars, facadeVars, daemonVars, callerVars>>
    \/ fixture /\ UNCHANGED <<codecVars, facadeVars, daemonVars, callerVars>>
    \/ coil_layout /\ UNCHANGED <<codecVars, facadeVars, daemonVars, callerVars>>
    \/ register_layout /\ UNCHANGED <<codecVars, facadeVars, daemonVars, callerVars>>
    \/ build_payload /\ UNCHANGED <<codecVars, facadeVars, daemonVars, callerVars>>

SpecLayout == InitLayout /\ [][NextLayout]_vars

(***************************************************************************)
(* Properties of layout construction and of build_payload                  *)
(***************************************************************************)
\* build_payload has returned chunks
Built == layout.status = "ok" /\ built # NoPayload /\ built.error = "none"

\* indices of the variables named in the values map, in address order
Written == {i \in 1..Len(layout.variables) :
                layout.variables[i].name \in DOMAIN built.values}

\* the written variable before i, or 0
PrevWritten(i) ==
    IF \E j \in Written : j < i
    THEN CHOOSE j \in Written : j < i /\ \A m \in Written : m < i => m <= j
    ELSE 0

\* the written variable i begins a maximal run of adjacent written variables
RunStart(i) ==
    \/ PrevWritten(i) = 0
    \/ layout.variables[PrevWritten(i)].address + layout.variables[PrevWritten(i)].size
          # layout.variables[i].address

ChunkAddresses == {built.chunks[c].address : c \in 1..Len(built.chunks)}

\* C1: for every layout and every values map whose keys are all declared,
\* build_payload returns exactly as many chunks as there are maximal runs of
\* written variables in address order, two consecutive written variables a, b
\* being in the same run iff a.address + a.size = b.address; an address gap or
\* a declared variable that is not in values starts a new chunk, and an empty
\* values map yields the empty list (the coil fixture with x, y, z, v written
\* gives 3 chunks).
C1_ChunkCount ==
    Built =>
       /\ Len(built.chunks) = Cardinality({i \in Written : RunStart(i)})
       /\ \A i \in Written :
             layout.variables[i].address \in ChunkAddresses <=> RunStart(i)
       /\ \A i \in Written :
             (PrevWritten(i) # 0 /\ PrevWritten(i) < i - 1) =>
                layout.variables[i].address \in ChunkAddresses
       /\ DOMAIN built.values = {} => built.chunks = <<>>
       /\ (layout.variables = Placed(CoilFixture)
             /\ DOMAIN built.values = {"x", "y", "z", "v"}) =>
                /\ Len(built.chunks) = 3
                /\ ChunkAddresses = {2, 7, 14}
       /\ (layout.variables = Placed(CoilFixture) /\ built.values = CoilFixtureValues) =>
             built.chunks = << Chunk(2, <<0, 1, 0>>), Chunk(7, <<1, 0, 0, 1, 1, 0>>),
                               Chunk(14, <<0, 1>>) >>

\* build_payload of the coil fixture with x, y, z and v written
C1_Witness ==
    /\ Built
    /\ layout.variables = Placed(CoilFixture)
    /\ DOMAIN built.values = {"x", "y", "z", "v"}
    /\ Len(built.chunks) = 3

ChunkEnd(c) == c.address + Len(c.values)

\* the chunks that cover the cells of variable v
Covering(v) ==
    {c \in 1..Len(built.chunks) :
        /\ built.chunks[c].address <= v.address
        /\ End(v) <= ChunkEnd(built.chunks[c])}

RECURSIVE SumSizes(_)
SumSizes(is) ==
    IF is = {} THEN 0
    ELSE LET i == CHOOSE j \in is : TRUE
         IN  layout.variables[i].size + SumSizes(is \ {i})

RECURSIVE SumLengths(_)
SumLengths(n) ==
    IF n = 0 THEN 0 ELSE Len(built.chunks[n].values) + SumLengths(n - 1)

\* C2: for every layout and every values map of declared names the chunks
\* are in strictly ascending address order; each chunk's address is the
\* address of the first variable of its run and its content is the
\* concatenation, in address order, of the encodings of exactly the run's
\* variables (its length is the sum of their sizes); every variable in values
\* is encoded in exactly one chunk and no chunk covers an address that
\* belongs to a variable not in values.
C2_ChunkContent ==
    Built =>
       /\ \A c, d \in 1..Len(built.chunks) :
             c < d => ChunkEnd(built.chunks[c]) <= built.chunks[d].address
       /\ \A c \in 1..Len(built.chunks) :
             \E i \in Written :
                /\ RunStart(i)
                /\ built.chunks[c].address = layout.variables[i].address
       /\ \A i \in Written :
             LET v == layout.variables[i]
             IN  /\ Cardinality(Covering(v)) = 1
                 /\ \A c \in Covering(v) :
                       SubSeq(built.chunks[c].values,
                              v.address - built.chunks[c].address + 1,
                              End(v) - built.chunks[c].address)
                          = EncodeVariable(layout, v, built.values[v.name])
       /\ SumLengths(Len(built.chunks)) = SumSizes(Written)
       /\ \A i \in 1..Len(layout.variables) :
             i \notin Written =>
                \A c \in 1..Len(built.chunks) :
                   \/ ChunkEnd(built.chunks[c]) <= layout.variables[i].address
                   \/ End(layout.variables[i]) <= built.chunks[c].address

\* the coil fixture: y and z are merged into the chunk at 7, u is skipped
C2_Witness ==
    /\ Built
    /\ layout.variables = Placed(CoilFixture)
    /\ built.values = CoilFixtureValues
    /\ \E c \in 1..Len(built.chunks) :
          built.chunks[c] = Chunk(7, <<1, 0, 0, 1, 1, 0>>)

\* the end of the variable declared before the i-th, placed by the rule
PrevEnd(vs, i) == Address(vs, i - 1) + vs[i - 1].size

\* some explicit address lies before the end of the variable declared before
AddressViolation(vs) ==
    \E i \in 2..Len(vs) : vs[i].address # None /\ vs[i].address[1] < PrevEnd(vs, i)

UniqueNames(vs) == \A i, j \in 1..Len(vs) : vs[i].name = vs[j].name => i = j

\* C5: at layout construction variables are placed in declaration order: a
\* variable without an explicit address gets prev.address + prev.size, a
\* variable with an explicit address >= prev.address + prev.size keeps it
\* (gaps allowed), an explicit address < prev.address + prev.size makes the
\* construction fail with InvalidAddressLayout (where names also repeat, the
\* failure may be the one for the repeated name).  In every constructed
\* layout every two distinct variables a, b satisfy a.end <= b.address or
\* b.end <= a.address.
C5_Placement ==
    /\ layout.status = "ok" =>
          /\ Len(layout.variables) = Len(declared)
          /\ \A i \in 1..Len(declared) :
                /\ layout.variables[i].name = declared[i].name
                /\ layout.variables[i].size = declared[i].size
                /\ (i > 1 /\ declared[i].address = None) =>
                      layout.variables[i].address =
                         layout.variables[i - 1].address + layout.variables[i - 1].size
                /\ declared[i].address # None =>
                      /\ layout.variables[i].address = declared[i].address[1]
                      /\ i > 1 => layout.variables[i].address >=
                            layout.variables[i - 1].address + layout.variables[i - 1].size
          /\ \A i, j \in 1..Len(declared) :
                i # j => \/ End(layout.variables[i]) <= layout.variables[j].address
                         \/ End(layout.variables[j]) <= layout.variables[i].address
    /\ (layout.status # "none" /\ AddressViolation(declared)) =>
          /\ layout.status \in {"InvalidAddressLayout", "DuplicateVariable"}
          /\ UniqueNames(declared) => layout.status = "InvalidAddressLayout"
          /\ layout.variables = <<>>
    /\ (layout.status # "none" /\ declared # <<>> /\ UniqueNames(declared)
          /\ ~AddressViolation(declared)) => layout.status = "ok"

\* a layout of three variables: implicit, explicit with a gap, implicit
C5_Witness ==
    /\ layout.status = "ok"
    /\ Len(declared) = 3
    /\ declared[1].address = None /\ declared[1].size = 2
    /\ declared[2].address = Some(3)
    /\ declared[3].address = None
    /\ layout.variables[3].address = 3 + declared[2].size

\* the construction was refused for an explicit address inside its predecessor
C5_WitnessOverlap ==
    /\ layout.status = "InvalidAddressLayout"
    /\ Len(declared) = 2
    /\ declared[1].size = 2
    /\ declared[1].address = Some(1)
    /\ declared[2].address = Some(1)

\* C6: build_payload(values) fails with VariableNotFound whenever at least
\* one key of values is not declared in the layout, even if other keys are
\* declared; it returns no chunk in that case and the error identifies all
\* unknown keys, not only the first one.
C6_VariableNotFound ==
    (layout.status = "ok" /\ built # NoPayload) =>
       LET declaredNames == {layout.variables[i].name : i \in 1..Len(layout.variables)}
           missing == {n \in DOMAIN built.values : n \notin declaredNames}
       IN  /\ built.error = "VariableNotFound" <=> missing # {}
           /\ missing # {} => (built.chunks = <<>> /\ built.unknown = missing)
           /\ missing = {} => built.error = "none"

\* two unknown keys next to two declared ones
C6_Witness ==
    /\ layout.status = "ok"
    /\ built.error = "VariableNotFound"
    /\ built.unknown = {"a", "spam"}
    /\ Cardinality(DOMAIN built.values) = 4

\* C7: construction-time validation is eager and specific: a register or coil
\* layout from an empty variable list fails with NoVariables, from a list
\* with two variables of the same name with DuplicateVariable (where an
\* explicit address also lies inside its predecessor, the failure may be the
\* one for the address); a variable with address < 0 fails with
\* NegativeAddress, a coil variable with size < 1 with InvalidSize (either,
\* when both apply); in each case no layout or variable object results.
C7_ConstructionErrors ==
    /\ ctor.op = "Variable" =>
          LET negative == ctor.args.address # None /\ ctor.args.address[1] < 0
              small == ctor.args.size < 1
          IN  /\ (negative /\ ~small) => ctor.error = "NegativeAddress"
              /\ (small /\ ~negative) => ctor.error = "InvalidSize"
              /\ (small /\ negative) =>
                    ctor.error \in {"NegativeAddress", "InvalidSize"}
              /\ (~small /\ ~negative) => ctor.error = "none"
              /\ ctor.error # "none" => declared = <<>>
              /\ ctor.error = "none" =>
                    /\ declared # <<>>
                    /\ declared[Len(declared)].name = ctor.args.name
                    /\ declared[Len(declared)].size = ctor.args.size
                    /\ declared[Len(declared)].address = ctor.args.address
    /\ (ctor.op = "Number" /\ ctor.args.type \in {"u16", "i32"}) =>
          LET negative == ctor.args.address # None /\ ctor.args.address[1] < 0
          IN  /\ negative => (ctor.error = "NegativeAddress" /\ declared = <<>>)
              /\ ~negative => ctor.error = "none"
    /\ \A i \in 1..Len(declared) :
          /\ declared[i].size >= 1
          /\ declared[i].address # None => declared[i].address[1] >= 0
    /\ layout.status # "none" =>
          /\ layout.kind \in {"CoilLayout", "RegisterLayout"}
          /\ declared = <<>> => layout.status = "NoVariables"
          /\ ~UniqueNames(declared) =>
                /\ layout.status \in {"DuplicateVariable", "InvalidAddressLayout"}
                /\ ~AddressViolation(declared) => layout.status = "DuplicateVariable"
          /\ layout.status # "ok" => (layout.variables = <<>> /\ built = NoPayload)
          /\ layout.status = "ok" =>
                (declared # <<>> /\ UniqueNames(declared)
                   /\ Len(layout.variables) = Len(declared))

\* a coil layout was refused for a name declared first and third
C7_Witness ==
    /\ layout.status = "DuplicateVariable"
    /\ layout.kind = "CoilLayout"
    /\ Len(declared) = 3
    /\ declared[1].name = declared[3].name
    /\ declared[1].name # declared[2].name

(***************************************************************************)
(* The facades: ServerContext over the datastore, Client and Protocol over *)
(* the transport                                                           *)
(***************************************************************************)
\* the values maps a write is called with
WriteInputs(unit, space) ==
    IF GetFallible(unit, space).error # "none"
    THEN {ValuesMap(NoLayout, {}, 1, {}), ValuesMap(NoLayout, {}, 1, {"spam"})}
    ELSE LET l == GetFallible(unit, space).layout[1] IN
         IF env = "faulty"
         THEN {ValuesMap(l, {}, 1, {}), ValuesMap(l, LayoutNames(l), 1, {})}
         ELSE IF unit = 2
         THEN {ValuesMap(l, {}, 1, {}), ValuesMap(l, LayoutNames(l), 1, {}),
               ValuesMap(l, LayoutNames(l), 1, {"spam"})}
         ELSE IF unit = WideUnit
         THEN {ValuesMap(l, {"a", "b"}, 1, {}), ValuesMap(l, {"c", "d"}, 1, {}),
               ValuesMap(l, LayoutNames(l), 1, {})}
         ELSE {ValuesMap(l, w, 1, {}) : w \in SUBSET LayoutNames(l)}
                 \cup {ValuesMap(l, LayoutNames(l), 2, {}),
                       ValuesMap(l, {}, 1, {"spam"}),
                       ValuesMap(l, LayoutNames(l), 1, {"spam"}),
                       OverflowMap(l)}

\* the variables arguments a read is called with
ReadInputs(unit, space) ==
    IF env = "faulty" THEN {None}
    ELSE IF unit = 0
    THEN {None, Some({"spam"}),
          Some({GetFallible(unit, space).layout[1].variables[1].name})}
    ELSE IF unit = 1 /\ GetFallible(unit, space).error = "none" THEN {None}
    ELSE {None, Some({"spam"})}

\* the variable a single-variable helper (read_coil, read_holding_register,
\* ...) is called with; None stands for the call of the plural method
HelperInputs(unit, space) ==
    IF env = "plain" /\ unit = 0 /\ space \in {"h", "c"}
    THEN {None, Some("spam"),
          Some(GetFallible(unit, space).layout[1].variables[1].name)}
    ELSE {None}

\* the units and sub-spaces the facades are called on
CallUnits == IF env = "faulty" THEN {0, 2} ELSE Units

\* the units the local context is called on: those whose layouts lie within
\* the blocks of the datastore
LocalUnits == CallUnits \ {WideUnit}
CallSpaces(unit) == IF env = "plain" THEN Spaces ELSE {"h", "c"}

Calling == req.pc \in {"idle", "done"} /\ nops < MaxOps

Request(facade, name, space, unit, values, variables) ==
    [NoRequest EXCEPT !.facade = facade, !.name = name, !.space = space,
                      !.unit = unit, !.values = values, !.variables = variables,
                      !.pc = "done"]

\* the function codes of the responses
FunctionCode(fn) ==
    CASE fn = "read_coils" -> 1
      [] fn = "read_discrete_inputs" -> 2
      [] fn = "read_holding_registers" -> 3
      [] fn = "read_input_registers" -> 4
      [] fn = "write_coils" -> 15
      [] fn = "write_registers" -> 16

\* the sub-space a method of the transport works on
SpaceOf(fn) ==
    CASE fn \in {"read_coils", "write_coils"} -> "c"
      [] fn = "read_discrete_inputs" -> "d"
      [] fn \in {"read_holding_registers", "write_registers"} -> "h"
      [] fn = "read_input_registers" -> "i"

IsRead(fn) ==
    fn \in {"read_coils", "read_discrete_inputs", "read_holding_registers",
            "read_input_registers"}

\* the method of the transport a read of a sub-space calls
ReadFn(space) ==
    CASE space = "c" -> "read_coils"
      [] space = "d" -> "read_discrete_inputs"
      [] space = "h" -> "read_holding_registers"
      [] space = "i" -> "read_input_registers"

\* a request that carries the address of the layout instead of the chunk's
WriteRpc_LayoutAddress(space, unit, chunk) ==
    Rpc(IF space = "h" THEN "write_registers" ELSE "write_coils",
        LayoutAddress(GetFallible(unit, space).layout[1]),
        Len(chunk.values), chunk.values, unit)

\* the request of the loop of write_* for one chunk
WriteRpc(space, unit, chunk) ==
    Rpc(IF space = "h" THEN "write_registers" ELSE "write_coils",
        chunk.address, Len(chunk.values), chunk.values, unit)

\* a read request for the first variable of the layout only
ReadRpc_FirstVariable(space, unit, l) ==
    Rpc(ReadFn(space), LayoutAddress(l), l.variables[1].size, <<>>, unit)

\* the request of read_*: the whole range of the layout
ReadRpc(space, unit, l) ==
    Rpc(ReadFn(space), LayoutAddress(l), LayoutSize(l), <<>>, unit)

\* the server's answer to a request and the datastore after it: an exception
\* response (function code + 0x80) for a unit or a range it does not have
Serve(st, rpc) ==
    IF rpc.unit \notin DOMAIN st \/ rpc.address + rpc.count > StoreSize
    THEN [store |-> st, response |-> Response(FunctionCode(rpc.fn) + 128, <<>>)]
    ELSE IF IsRead(rpc.fn)
    THEN [store |-> st,
          response |->
             Response(FunctionCode(rpc.fn),
                      IF SpaceOf(rpc.fn) \in RegisterSpaces
                      THEN GetValues(st[rpc.unit][SpaceOf(rpc.fn)], rpc.address,
                                     rpc.count)
                      ELSE ResponseBits(GetValues(st[rpc.unit][SpaceOf(rpc.fn)],
                                                  rpc.address, rpc.count)))]
    ELSE [store |-> [st EXCEPT ![rpc.unit][SpaceOf(rpc.fn)] =
                        SetValues(st[rpc.unit][SpaceOf(rpc.fn)], rpc.address,
                                  Cells(SpaceOf(rpc.fn), rpc))],
          response |-> Response(FunctionCode(rpc.fn), <<>>)]

\* slave.setValues(fx, chunk.address, chunk.values) on the datastore of unit
SetCall(unit, chunk) ==
    Rpc("setValues", chunk.address, Len(chunk.values), chunk.values, unit)

\* a loop that writes every chunk at the address of the layout
RECURSIVE SetChunks_LayoutAddress(_, _, _, _)
SetChunks_LayoutAddress(st, unit, space, chunks) ==
    IF chunks = <<>> THEN [store |-> st, error |-> "none", wire |-> <<>>]
    ELSE IF unit \notin DOMAIN st
    THEN [store |-> st, error |-> "NoSuchSlave", wire |-> <<>>]
    ELSE [SetChunks_LayoutAddress(
             [st EXCEPT ![unit][space] =
                 SetValues(st[unit][space],
                           LayoutAddress(GetFallible(unit, space).layout[1]),
                           Cells(space, Head(chunks)))],
             unit, space, Tail(chunks))
          EXCEPT !.wire = <<SetCall(unit, Head(chunks))>> \o @]

\* the loop of set_* over the chunks: the store of the unit is looked up for
\* every chunk, and the first failure ends the loop; wire lists the setValues
\* calls made
RECURSIVE SetChunks(_, _, _, _)
SetChunks(st, unit, space, chunks) ==
    IF chunks = <<>> THEN [store |-> st, error |-> "none", wire |-> <<>>]
    ELSE IF unit \notin DOMAIN st
    THEN [store |-> st, error |-> "NoSuchSlave", wire |-> <<>>]
    ELSE [SetChunks(
             [st EXCEPT ![unit][space] =
                 SetValues(st[unit][space], Head(chunks).address,
                           Cells(space, Head(chunks)))],
             unit, space, Tail(chunks))
          EXCEPT !.wire = <<SetCall(unit, Head(chunks))>> \o @]

\* a set_* that encodes each variable right before it writes it: the values
\* that build_payload accepts are written before the exception is raised
ContextSet_Lazy(st, unit, space, values) ==
    LET g == GetFallible(unit, space)
        l == g.layout[1]
        b == BuildPayload(l, values)
        fine == {n \in DOMAIN values \cap LayoutNames(l) :
                    EncodingError(l, [m \in {n} |-> values[n]]) = "none"}
        w == SetChunks(st, unit, space,
                       Plan(l, [n \in fine |-> values[n]], 1, <<>>))
    IN  IF g.error # "none" THEN [error |-> g.error, store |-> st, wire |-> <<>>]
        ELSE IF b.error # "none" /\ w.error = "none"
        THEN [w EXCEPT !.error = b.error]
        ELSE w

\* a set_* that looks the datastore of the unit up before its loop
ContextSet_StoreFirst(st, unit, space, values) ==
    LET g == GetFallible(unit, space)
        b == BuildPayload(g.layout[1], values)
        w == SetChunks(st, unit, space, b.chunks)
    IN  IF g.error # "none" THEN [error |-> g.error, store |-> st, wire |-> <<>>]
        ELSE IF b.error # "none"
        THEN [error |-> b.error, store |-> st, wire |-> <<>>]
        ELSE IF unit \notin DOMAIN st
        THEN [error |-> "NoSuchSlave", store |-> st, wire |-> <<>>]
        ELSE w

\* the outcome of ServerContext.set_*(values, unit): the error raised, the
\* datastore after the call and the setValues calls made
ContextSet(st, unit, space, values) ==
    LET g == GetFallible(unit, space)
        b == BuildPayload(g.layout[1], values)
        w == SetChunks(st, unit, space, b.chunks)
    IN  IF g.error # "none" THEN [error |-> g.error, store |-> st, wire |-> <<>>]
        ELSE IF b.error # "none"
        THEN [error |-> b.error, store |-> st, wire |-> <<>>]
        ELSE w

\* ServerContext.set_*(values, unit)
Set(name, space) ==
    /\ Calling
    /\ \E unit \in LocalUnits : \E values \in WriteInputs(unit, space) :
          \E o \in {ContextSet(store, unit, space, values)} :
              /\ space \in CallSpaces(unit)
              /\ req' = [Request("context", name, space, unit, values, None)
                            EXCEPT !.error = o.error, !.sent = o.wire,
                                   !.wire = o.wire]
              /\ store' = o.store
              /\ lastWrite' =
                    IF o.error = "none"
                    THEN [unit |-> unit, space |-> space, values |-> values]
                    ELSE IF o.store = store THEN lastWrite ELSE NoWrite
    /\ nops' = nops + 1
    /\ UNCHANGED <<active, worker, commands, responses, phase, env>>

set_holding_registers == Set("set_holding_registers", "h")
set_input_registers == Set("set_input_registers", "i")
set_coils == Set("set_coils", "c")
set_discrete_inputs == Set("set_discrete_inputs", "d")

\* a get_* that decodes before it looks the datastore of the unit up
ContextGet_DecodeFirst(st, unit, space, variables) ==
    LET g == GetFallible(unit, space)
        l == g.layout[1]
        d == Decode(l, [i \in 1..LayoutSize(l) |-> 0], variables)
        e == Decode(l, GetValues(st[unit][space], LayoutAddress(l), LayoutSize(l)),
                    variables)
    IN  IF g.error # "none" THEN [error |-> g.error, result |-> <<>>, wire |-> <<>>]
        ELSE IF d.error # "none"
        THEN [error |-> d.error, result |-> <<>>, wire |-> <<>>]
        ELSE IF unit \notin DOMAIN st
        THEN [error |-> "NoSuchSlave", result |-> <<>>, wire |-> <<>>]
        ELSE [error |-> e.error, result |-> e.result,
              wire |-> <<Rpc("getValues", LayoutAddress(l), LayoutSize(l), <<>>,
                             unit)>>]

\* the outcome of ServerContext.get_*(variables, unit): the error raised, the
\* map returned and the getValues call made
ContextGet(st, unit, space, variables) ==
    LET g == GetFallible(unit, space)
        l == g.layout[1]
        d == Decode(l, GetValues(st[unit][space], LayoutAddress(l), LayoutSize(l)),
                    variables)
    IN  IF g.error # "none" THEN [error |-> g.error, result |-> <<>>, wire |-> <<>>]
        ELSE IF unit \notin DOMAIN st
        THEN [error |-> "NoSuchSlave", result |-> <<>>, wire |-> <<>>]
        ELSE [error |-> d.error, result |-> d.result,
              wire |-> <<Rpc("getValues", LayoutAddress(l), LayoutSize(l), <<>>,
                             unit)>>]

\* ServerContext.get_*(variables, unit)
Get_(name, space) ==
    /\ Calling
    /\ \E unit \in LocalUnits : \E variables \in ReadInputs(unit, space) :
          \E o \in {ContextGet(store, unit, space, variables)} :
              /\ space \in CallSpaces(unit)
              /\ req' = [Request("context", name, space, unit, <<>>, variables)
                            EXCEPT !.error = o.error, !.result = o.result,
                                   !.sent = o.wire, !.wire = o.wire]
    /\ nops' = nops + 1
    /\ UNCHANGED <<store, lastWrite, active, worker, commands, responses, phase, env>>

get_holding_registers == Get_("get_holding_registers", "h")
get_input_registers == Get_("get_input_registers", "i")
get_coils == Get_("get_coils", "c")
get_discrete_inputs == Get_("get_discrete_inputs", "d")

\* the timeout start and stop are called with
Timeouts == IF env = "faulty" THEN {Some(1)} ELSE {None}

\* what the factory, connect and the methods of the transport do when called
\* on the worker thread
Outcomes == IF env = "faulty" THEN {"returns", "raises"} ELSE {"returns"}

Done(r, error) == [r EXCEPT !.pc = "done", !.error = error]

\* Client._execute up to the wait for the response: NotConnected unless
\* _active, else the RpcCall is put on the command queue
Execute_(r, rpc) ==
    IF ~active
    THEN [req |-> Done(r, "NotConnected"), commands |-> commands]
    ELSE [req |-> [r EXCEPT !.pc = "awaiting", !.sent = Append(@, rpc)],
          commands |-> Append(commands, Command(rpc))]

\* Protocol: the call of the method of the wrapped protocol, which is awaited
Await(r, rpc) ==
    [req |-> [r EXCEPT !.pc = "pending", !.sent = Append(@, rpc)],
     commands |-> commands]

\* the facade hands a request to its transport
Issue(r, rpc) == IF r.facade = "client" THEN Execute_(r, rpc) ELSE Await(r, rpc)

\* a check of the function code that lets the responses to writes pass
Rejected_WritesUnchecked(rpc, msg) ==
    IsRead(rpc.fn) /\ msg.function_code # FunctionCode(rpc.fn)

\* response.function_code != <the response class of the operation>.function_code
Rejected(rpc, msg) == msg.function_code # FunctionCode(rpc.fn)

\* a write_* that looks at the function codes when its loop is over: after
\* a refused chunk it goes on with the next one
Accept_AfterLoop(r, msg) ==
    LET rpc == r.sent[Len(r.sent)]
        l == GetFallible(r.unit, r.space).layout[1]
        d == Decode(l, msg.data, IF r.var = None THEN r.variables ELSE None)
        s == [r EXCEPT !.response = msg]
    IN  IF msg.kind = "UnhandledException" THEN Done(s, msg.error)
        ELSE IF msg.kind # "response" THEN Done(s, "AttributeError")
        ELSE IF Rejected(rpc, msg) /\ (IsRead(rpc.fn) \/ Tail(r.pending) = <<>>)
        THEN [s EXCEPT !.pc = "done", !.error = "ModbusResponse", !.carries = msg]
        ELSE IF ~IsRead(rpc.fn)
        THEN [s EXCEPT !.pending = Tail(@),
                       !.pc = IF Tail(r.pending) = <<>> THEN "done" ELSE "next"]
        ELSE IF d.error # "none" THEN Done(s, d.error)
        ELSE IF r.var = None THEN [s EXCEPT !.pc = "done", !.result = d.result]
        ELSE IF r.var[1] \notin DOMAIN d.result THEN Done(s, "KeyError")
        ELSE [s EXCEPT !.pc = "done",
                       !.result = [n \in {r.var[1]} |-> d.result[n]]]

\* what read_* and write_* do with the outcome of their latest request: an
\* UnhandledException is raised again by _execute, a response with another
\* function code raises ModbusResponse, the response to a read is decoded,
\* and a write goes on with its next chunk (pc "next") or returns
Accept(r, msg) ==
    LET rpc == r.sent[Len(r.sent)]
        l == GetFallible(r.unit, r.space).layout[1]
        d == Decode(l, msg.data, IF r.var = None THEN r.variables ELSE None)
        s == [r EXCEPT !.response = msg]
    IN  IF msg.kind = "UnhandledException" THEN Done(s, msg.error)
        ELSE IF msg.kind # "response" THEN Done(s, "AttributeError")
        ELSE IF Rejected(rpc, msg)
        THEN [s EXCEPT !.pc = "done", !.error = "ModbusResponse", !.carries = msg]
        ELSE IF ~IsRead(rpc.fn)
        THEN [s EXCEPT !.pending = Tail(@),
                       !.pc = IF Tail(r.pending) = <<>> THEN "done" ELSE "next"]
        ELSE IF d.error # "none" THEN Done(s, d.error)
        ELSE IF r.var = None THEN [s EXCEPT !.pc = "done", !.result = d.result]
        ELSE IF r.var[1] \notin DOMAIN d.result THEN Done(s, "KeyError")
        ELSE [s EXCEPT !.pc = "done",
                       !.result = [n \in {r.var[1]} |-> d.result[n]]]

\* the values map a write has completed with, or the last one as it was
Completed(a) ==
    IF a.pc = "done" /\ a.error = "none" /\ a.values # <<>> /\ a.pending = <<>>
       /\ a.sent # <<>> /\ ~IsRead(a.sent[1].fn)
    THEN [unit |-> a.unit, space |-> a.space, values |-> a.values]
    ELSE lastWrite

\* write_*(values, unit) of Client and Protocol up to its first request
RemoteWrite(facade, name, space) ==
    /\ Calling
    /\ \E unit \in CallUnits : \E values \in WriteInputs(unit, space) :
          LET r == Request(facade, name, space, unit, values, None)
              g == GetFallible(unit, space)
              b == BuildPayload(g.layout[1], values)
              i == Issue([r EXCEPT !.pending = b.chunks],
                         WriteRpc(space, unit, Head(b.chunks)))
          IN  /\ space \in CallSpaces(unit)
              /\ IF g.error # "none"
                 THEN /\ req' = Done(r, g.error)
                      /\ UNCHANGED <<lastWrite, commands>>
                 ELSE IF b.error # "none"
                 THEN /\ req' = Done(r, b.error)
                      /\ UNCHANGED <<lastWrite, commands>>
                 ELSE IF b.chunks = <<>>
                 THEN /\ req' = r
                      /\ lastWrite' = [unit |-> unit, space |-> space,
                                       values |-> values]
                      /\ UNCHANGED commands
                 ELSE /\ req' = i.req
                      /\ commands' = i.commands
                      /\ UNCHANGED lastWrite
    /\ nops' = nops + 1
    /\ UNCHANGED <<store, active, worker, responses, phase, env>>

\* read_*(variables, unit) of Client and Protocol, and the single-variable
\* helpers, up to the request
RemoteRead(facade, name, space) ==
    /\ Calling
    /\ \E unit \in CallUnits : \E variables \in ReadInputs(unit, space) :
       \E var \in HelperInputs(unit, space) :
          LET r == [Request(facade, name, space, unit, <<>>, variables)
                       EXCEPT !.var = var]
              g == GetFallible(unit, space)
              i == Issue(r, ReadRpc(space, unit, g.layout[1]))
          IN  /\ space \in CallSpaces(unit)
              /\ var # None => variables = None
              /\ IF g.error # "none"
                 THEN /\ req' = Done(r, g.error)
                      /\ UNCHANGED commands
                 ELSE /\ req' = i.req
                      /\ commands' = i.commands
    /\ nops' = nops + 1
    /\ UNCHANGED <<store, lastWrite, active, worker, responses, phase, env>>

\* Client.write_*(values, unit)
Write(name, space) == RemoteWrite("client", name, space)

write_holding_registers == Write("write_holding_registers", "h")
write_coils == Write("write_coils", "c")

\* _TYPES: the order in which find looks through the sub-layouts of a unit
Types == <<"i", "h", "c", "d">>

\* `var in layout` for the sub-layout of the unit, which may be None
Declares(unit, space, var) ==
    /\ ServerLayout[unit][space] # None
    /\ var \in LayoutNames(ServerLayout[unit][space][1])

\* ServerContextLayout.find(var): the first unit, in the order of the dict,
\* and in it the first sub-layout, in the order of _TYPES, that declares var
Find(var) ==
    LET hits == {h \in LayoutUnits \X (1..4) : Declares(h[1], Types[h[2]], var)}
        first == CHOOSE h \in hits :
                    \A g \in hits : h[1] < g[1] \/ (h[1] = g[1] /\ h[2] <= g[2])
    IN  IF hits = {} THEN [error |-> "VariableNotFound", unit |-> 0, space |-> ""]
        ELSE [error |-> "none", unit |-> first[1], space |-> Types[first[2]]]

\* the names Client.write is called with
WriteVars == {"i", "x", "a", "c", "result", "spam"}

\* Client.write(var, value) up to its request: find, the assertion on the
\* type, and write_holding_register or write_coil of the unit found, which
\* call write_holding_registers or write_coils with the one variable
write ==
    /\ Calling
    /\ \E var \in WriteVars : \E f \in {Find(var)} :
          LET l == ServerLayout[f.unit][f.space][1]
              values == [n \in {var} |-> SampleValue(VariableNamed(l, var), 1)]
              r == [Request("client", "write", f.space, f.unit, <<>>, None)
                       EXCEPT !.var = Some(var)]
              b == BuildPayload(l, values)
              w == [r EXCEPT !.name = IF f.space = "h" THEN "write_holding_registers"
                                      ELSE "write_coils",
                             !.values = values, !.pending = b.chunks]
              i == Execute_(w, WriteRpc(f.space, f.unit, Head(b.chunks)))
          IN  IF f.error # "none"
              THEN req' = Done(r, f.error) /\ UNCHANGED commands
              ELSE IF f.space \notin {"h", "c"}
              THEN req' = Done(r, "AssertionError") /\ UNCHANGED commands
              ELSE req' = i.req /\ commands' = i.commands
    /\ nops' = nops + 1
    /\ UNCHANGED <<store, lastWrite, active, worker, responses, phase, env>>

\* Client.read_*(variables, unit)
Read(name, space) == RemoteRead("client", name, space)

read_holding_registers == Read("read_holding_registers", "h")
read_input_registers == Read("read_input_registers", "i")
read_coils == Read("read_coils", "c")
read_discrete_inputs == Read("read_discrete_inputs", "d")

\* an _execute that gives the response queue up when it finds it empty
receive_Timeout ==
    /\ req.pc = "awaiting"
    /\ IF responses = <<>>
       THEN req' = Done(req, "Empty") /\ UNCHANGED <<commands, responses, lastWrite>>
       ELSE LET a == Accept(req, Head(responses))
                i == Execute_(a, WriteRpc(a.space, a.unit, Head(a.pending)))
            IN  /\ responses' = Tail(responses)
                /\ IF a.pc = "next"
                   THEN req' = i.req /\ commands' = i.commands
                   ELSE req' = a /\ UNCHANGED commands
                /\ lastWrite' = Completed(a)
    /\ UNCHANGED <<store, nops, active, worker, phase, env>>

\* Client._execute from the response on, and the rest of read_* or write_*
receive ==
    /\ req.pc = "awaiting"
    /\ responses # <<>>
    /\ LET a == Accept(req, Head(responses))
           i == Execute_(a, WriteRpc(a.space, a.unit, Head(a.pending)))
       IN  /\ responses' = Tail(responses)
           /\ IF a.pc = "next"
              THEN req' = i.req /\ commands' = i.commands
              ELSE req' = a /\ UNCHANGED commands
           /\ lastWrite' = Completed(a)
    /\ UNCHANGED <<store, nops, active, worker, phase, env>>

\* Protocol.write_*(values, unit)
ProtocolWrite(name, space) == RemoteWrite("protocol", name, space)

protocol_write_holding_registers == ProtocolWrite("write_holding_registers", "h")
protocol_write_coils == ProtocolWrite("write_coils", "c")

\* Protocol.read_*(variables, unit)
ProtocolRead(name, space) == RemoteRead("protocol", name, space)

protocol_read_holding_registers == ProtocolRead("read_holding_registers", "h")
protocol_read_input_registers == ProtocolRead("read_input_registers", "i")
protocol_read_coils == ProtocolRead("read_coils", "c")
protocol_read_discrete_inputs == ProtocolRead("read_discrete_inputs", "d")

\* the awaited call of the wrapped protocol completes: the server answers
\* the request, and read_* or write_* of Protocol goes on
respond ==
    /\ req.pc = "pending"
    /\ LET rpc == req.sent[Len(req.sent)]
           s == Serve(store, rpc)
           a == Accept([req EXCEPT !.wire = Append(@, rpc)], s.response)
       IN  /\ store' = s.store
           /\ req' = IF a.pc = "next"
                     THEN Await(a, WriteRpc(a.space, a.unit, Head(a.pending))).req
                     ELSE a
           /\ lastWrite' = IF a.pc = "done" /\ a.error = "none" THEN Completed(a)
                           ELSE IF s.store = store THEN lastWrite ELSE NoWrite
    /\ UNCHANGED <<nops, active, worker, commands, responses, phase, env>>

\* a start that takes whatever the worker has sent for CONNECTED
StartOutcome_NoAssert(msg) == [active |-> TRUE, error |-> "none"]

\* Client.start from the item of the response queue on: the assertion, then
\* _active = True
StartOutcome(msg) ==
    IF msg = CONNECTED THEN [active |-> TRUE, error |-> "none"]
    ELSE [active |-> active, error |-> "AssertionError"]

\* Client.start(timeout) up to the wait for CONNECTED; a thread cannot be
\* started twice
start ==
    /\ req.pc \in {"idle", "done"}
    /\ worker.pc = "unstarted" \/ env = "faulty"
    /\ \E timeout \in Timeouts :
          LET r == [Request("client", "start", "", 0, <<>>, None)
                       EXCEPT !.timeout = timeout]
          IN  IF worker.pc # "unstarted"
              THEN req' = Done(r, "RuntimeError") /\ UNCHANGED worker
              ELSE /\ req' = [r EXCEPT !.pc = "starting"]
                   /\ worker' = [worker EXCEPT !.pc = "connecting"]
    /\ UNCHANGED <<store, lastWrite, nops, active, commands, responses, phase, env>>

\* Client.start: an item arrives on the response queue
start_receive ==
    /\ req.pc = "starting"
    /\ responses # <<>>
    /\ responses' = Tail(responses)
    /\ active' = StartOutcome(Head(responses)).active
    /\ req' = [Done(req, StartOutcome(Head(responses)).error)
                  EXCEPT !.response = Head(responses)]
    /\ phase' = IF StartOutcome(Head(responses)).error = "none" THEN "started"
                ELSE phase
    /\ UNCHANGED <<store, lastWrite, nops, worker, commands, env>>

\* Client.start: the timeout elapses on the empty response queue
start_timeout ==
    /\ req.pc = "starting"
    /\ req.timeout # None
    /\ responses = <<>>
    /\ req' = Done(req, "Empty")
    /\ UNCHANGED <<store, lastWrite, nops, active, worker, commands, responses,
                   phase, env>>

\* _client_main: factory(), connect() and the announcement of CONNECTED, or
\* the exception of one of the two in an UnhandledException
connect ==
    /\ worker.pc = "connecting"
    /\ \E outcome \in Outcomes :
          IF outcome = "returns"
          THEN /\ responses' = Append(responses, CONNECTED)
               /\ worker' = [worker EXCEPT !.pc = "waiting"]
          ELSE /\ responses' = Append(responses,
                                     UnhandledException("ConnectionException"))
               /\ worker' = [worker EXCEPT !.pc = "leaving"]
    /\ UNCHANGED <<store, req, lastWrite, nops, active, commands, phase, env>>

\* a worker that ends its loop on DISCONNECT without echoing it
get_NoEcho ==
    /\ worker.pc = "waiting"
    /\ commands # <<>>
    /\ commands' = Tail(commands)
    /\ worker' = IF Head(commands) = DISCONNECT
                 THEN [worker EXCEPT !.pc = "leaving"]
                 ELSE [pc |-> "executing", rpc |-> Head(commands).rpc]
    /\ UNCHANGED <<store, req, lastWrite, nops, active, phase, env, responses>>

\* _client_main: command_queue.get(); DISCONNECT is echoed and ends the loop
get ==
    /\ worker.pc = "waiting"
    /\ commands # <<>>
    /\ commands' = Tail(commands)
    /\ IF Head(commands) = DISCONNECT
       THEN /\ responses' = Append(responses, DisconnectEcho)
            /\ worker' = [worker EXCEPT !.pc = "leaving"]
       ELSE /\ worker' = [pc |-> "executing", rpc |-> Head(commands).rpc]
            /\ UNCHANGED responses
    /\ UNCHANGED <<store, req, lastWrite, nops, active, phase, env>>

\* _client_main: rpc.execute(client) and the put of its result, or of its
\* exception in an UnhandledException
execute ==
    /\ worker.pc = "executing"
    /\ \E outcome \in Outcomes :
          IF outcome = "returns"
          THEN /\ store' = Serve(store, worker.rpc).store
               /\ responses' = Append(responses, Serve(store, worker.rpc).response)
               /\ worker' = [pc |-> "waiting", rpc |-> NoRpc]
               /\ lastWrite' = IF Serve(store, worker.rpc).store = store
                               THEN lastWrite ELSE NoWrite
          ELSE /\ responses' = Append(responses,
                                     UnhandledException("ModbusIOException"))
               /\ worker' = [pc |-> "leaving", rpc |-> NoRpc]
               /\ UNCHANGED <<store, lastWrite>>
    /\ req' = [req EXCEPT !.wire = Append(@, worker.rpc)]
    /\ UNCHANGED <<nops, active, commands, phase, env>>

\* _client_main returns and the thread ends
exit ==
    /\ worker.pc = "leaving"
    /\ worker' = [worker EXCEPT !.pc = "exited"]
    /\ UNCHANGED <<store, req, lastWrite, nops, active, commands, responses,
                   phase, env>>

\* Client.stop(timeout) up to the wait for the echo of DISCONNECT
stop ==
    /\ req.pc \in {"idle", "done"}
    /\ \E timeout \in Timeouts :
          req' = [Request("client", "stop", "", 0, <<>>, None)
                     EXCEPT !.timeout = timeout, !.pc = "stopping"]
    /\ commands' = Append(commands, DISCONNECT)
    /\ UNCHANGED <<store, lastWrite, nops, active, worker, responses, phase, env>>

\* Client.stop: an item arrives on the response queue, which is waited for
\* without timeout
stop_receive ==
    /\ req.pc = "stopping"
    /\ responses # <<>>
    /\ responses' = Tail(responses)
    /\ req' = IF Head(responses) = DisconnectEcho
              THEN [req EXCEPT !.pc = "joining", !.response = Head(responses)]
              ELSE [Done(req, "AssertionError") EXCEPT !.response = Head(responses)]
    /\ UNCHANGED <<store, lastWrite, nops, active, worker, commands, phase, env>>

\* Client.stop: join returns with the thread ended
join ==
    /\ req.pc = "joining"
    /\ worker.pc = "exited"
    /\ req' = Done(req, "none")
    /\ phase' = "stopped"
    /\ UNCHANGED <<store, lastWrite, nops, active, worker, commands, responses, env>>

\* Client.stop: join returns on its timeout with the thread alive
join_timeout ==
    /\ req.pc = "joining"
    /\ req.timeout # None
    /\ worker.pc # "exited"
    /\ req' = Done(req, "TimeoutError")
    /\ UNCHANGED <<store, lastWrite, nops, active, worker, commands, responses,
                   phase, env>>

Init ==
    /\ FacadeIdle
    /\ env = "plain"
    /\ LayoutIdle
    /\ CodecIdle
    /\ DaemonIdle
    /\ CallersIdle

Next ==
    \/ set_holding_registers /\ UNCHANGED <<codecVars, layoutVars, daemonVars, callerVars>>
    \/ set_input_registers /\ UNCHANGED <<codecVars, layoutVars, daemonVars, callerVars>>
    \/ set_coils /\ UNCHANGED <<codecVars, layoutVars, daemonVars, callerVars>>
    \/ set_discrete_inputs /\ UNCHANGED <<codecVars, layoutVars, daemonVars, callerVars>>
    \/ get_holding_registers /\ UNCHANGED <<codecVars, layoutVars, daemonVars, callerVars>>
    \/ get_input_registers /\ UNCHANGED <<codecVars, layoutVars, daemonVars, callerVars>>
    \/ get_coils /\ UNCHANGED <<codecVars, layoutVars, daemonVars, callerVars>>
    \/ get_discrete_inputs /\ UNCHANGED <<codecVars, layoutVars, daemonVars, callerVars>>
    \/ start /\ UNCHANGED <<codecVars, layoutVars, daemonVars, callerVars>>
    \/ start_receive /\ UNCHANGED <<codecVars, layoutVars, daemonVars, callerVars>>
    \/ connect /\ UNCHANGED <<codecVars, layoutVars, daemonVars, callerVars>>
    \/ get /\ UNCHANGED <<codecVars, layoutVars, daemonVars, callerVars>>
    \/ execute /\ UNCHANGED <<codecVars, layoutVars, daemonVars, callerVars>>
    \/ receive /\ UNCHANGED <<codecVars, layoutVars, daemonVars, callerVars>>
    \/ write_holding_registers /\ UNCHANGED <<codecVars, layoutVars, daemonVars, callerVars>>
    \/ write_coils /\ UNCHANGED <<codecVars, layoutVars, daemonVars, callerVars>>
    \/ write /\ UNCHANGED <<codecVars, layoutVars, daemonVars, callerVars>>
    \/ read_holding_registers /\ UNCHANGED <<codecVars, layoutVars, daemonVars, callerVars>>
    \/ read_input_registers /\ UNCHANGED <<codecVars, layoutVars, daemonVars, callerVars>>
    \/ read_coils /\ UNCHANGED <<codecVars, layoutVars, daemonVars, callerVars>>
    \/ read_discrete_inputs /\ UNCHANGED <<codecVars, layoutVars, daemonVars, callerVars>>
    \/ protocol_write_holding_registers /\ UNCHANGED <<codecVars, layoutVars, daemonVars, callerVars>>
    \/ protocol_write_coils /\ UNCHANGED <<codecVars, layoutVars, daemonVars, callerVars>>
    \/ protocol_read_holding_registers /\ UNCHANGED <<codecVars, layoutVars, daemonVars, callerVars>>
    \/ protocol_read_input_registers /\ UNCHANGED <<codecVars, layoutVars, daemonVars, callerVars>>
    \/ protocol_read_coils /\ UNCHANGED <<codecVars, layoutVars, daemonVars, callerVars>>
    \/ protocol_read_discrete_inputs /\ UNCHANGED <<codecVars, layoutVars, daemonVars, callerVars>>
    \/ respond /\ UNCHANGED <<codecVars, layoutVars, daemonVars, callerVars>>

Spec == Init /\ [][Next]_vars

\* the threaded Client with finite timeouts over a factory and a transport
\* that may raise
InitClient ==
    /\ FacadeIdle
    /\ env = "faulty"
    /\ LayoutIdle
    /\ CodecIdle
    /\ DaemonIdle
    /\ CallersIdle

NextClient ==
    \/ start /\ UNCHANGED <<codecVars, layoutVars, daemonVars, callerVars>>
    \/ start_receive /\ UNCHANGED <<codecVars, layoutVars, daemonVars, callerVars>>
    \/ start_timeout /\ UNCHANGED <<codecVars, layoutVars, daemonVars, callerVars>>
    \/ connect /\ UNCHANGED <<codecVars, layoutVars, daemonVars, callerVars>>
    \/ get /\ UNCHANGED <<codecVars, layoutVars, daemonVars, callerVars>>
    \/ execute /\ UNCHANGED <<codecVars, layoutVars, daemonVars, callerVars>>
    \/ exit /\ UNCHANGED <<codecVars, layoutVars, daemonVars, callerVars>>
    \/ receive /\ UNCHANGED <<codecVars, layoutVars, daemonVars, callerVars>>
    \/ stop /\ UNCHANGED <<codecVars, layoutVars, daemonVars, callerVars>>
    \/ stop_receive /\ UNCHANGED <<codecVars, layoutVars, daemonVars, callerVars>>
    \/ join /\ UNCHANGED <<codecVars, layoutVars, daemonVars, callerVars>>
    \/ join_timeout /\ UNCHANGED <<codecVars, layoutVars, daemonVars, callerVars>>
    \/ write_holding_registers /\ UNCHANGED <<codecVars, layoutVars, daemonVars, callerVars>>
    \/ write_coils /\ UNCHANGED <<codecVars, layoutVars, daemonVars, callerVars>>
    \/ read_holding_registers /\ UNCHANGED <<codecVars, layoutVars, daemonVars, callerVars>>
    \/ read_coils /\ UNCHANGED <<codecVars, layoutVars, daemonVars, callerVars>>

SpecClient == InitClient /\ [][NextClient]_vars

(***************************************************************************)
(* SpecDaemon: the daemons of pretty_modbus.daemon and threaded.Daemon     *)
(*                                                                         *)
(* The caller constructs a daemon, serves it on the context of DaemonUnit  *)
(* and goes on writing x and y to the holding registers while the job of   *)
(* tests/test_daemon.py compares them and writes the coil result. With a   *)
(* DaemonThread the caller and the job are two threads, which interleave   *)
(* between any two calls of the datastore; with an AsyncDaemon both are    *)
(* coroutines of one event loop, which interleave at an await only.        *)
(***************************************************************************)
Variants == {"AsyncDaemon", "DaemonThread", "Daemon"}

\* the periods a daemon is constructed with
Periods == {-1, 0, 2}

\* the readings of time.perf_counter() at the head of an iteration, and the
\* time the job takes
Starts == {0, 7}
Elapsed == {0, 1, 3}

\* what the job does when called: it returns, or it raises ValueError
JobOutcomes == {"returns", "raises"}

\* the names pretty_modbus/exceptions.py defines
ExceptionsNames ==
    {"ModbusBackendException", "NoVariablesError", "NotConnectedError",
     "UnknownTypeError", "OutOfBoundsError", "NegativeAddressError",
     "InvalidAddressLayoutError", "VariableNotFoundError",
     "DuplicateVariableError", "EncodingError", "MissingSubLayoutError",
     "NoSuchSlaveLayoutError", "NoSuchSlaveError", "ModbusResponseError"}

\* the names the module of the class imports from pretty_modbus.exceptions:
\* pretty_modbus.threaded for Daemon, pretty_modbus.daemon for the others
ImportsOf(variant) ==
    IF variant = "Daemon"
    THEN {"ModbusResponseError", "NotConnectedError", "NegativePeriodError"}
    ELSE {"ModbusBackendException"}

\* from pretty_modbus.exceptions import (...): every name must be defined
Importable(variant) == ImportsOf(variant) \subseteq ExceptionsNames

\* the import of the class and its __init__(job, period): the daemon with its
\* event clear and no thread or task, or the exception raised
NewDaemon(variant, period) ==
    IF ~Importable(variant) THEN [error |-> "ImportError", daemon |-> NoDaemon]
    ELSE IF period < 0 THEN [error |-> "NegativePeriodError", daemon |-> NoDaemon]
    ELSE [error |-> "none",
          daemon |-> [NoDaemon EXCEPT !.variant = variant, !.period = period,
                                      !.pc = "created"]]

Max(a, b) == IF a >= b THEN a ELSE b

\* the sleep after a job that was started at time t and has returned at now:
\* AsyncDaemon takes diff = start - now, the others diff = now - start_time
Wait(variant, period, t, now) ==
    IF variant = "AsyncDaemon" THEN Max(period - (t - now), 0)
    ELSE Max(0, period - (now - t))

\* a loop that never tests the event
LoopEnds_Never(d) == FALSE

\* the loop of threaded.Daemon is `while True`, the others test the event
LoopEnds(d) == d.variant # "Daemon" /\ d.event

\* the caller and the daemon are coroutines of one event loop
Cooperative == daemon.variant = "AsyncDaemon"

\* the thread or task of the daemon is alive
Alive(d) == d.pc \in {"head", "job", "compared", "sleeping"}

\* the daemon after its job has raised: DaemonThread puts the exception on
\* its queue, the task of AsyncDaemon ends with it, and the thread of
\* threaded.Daemon dies with it
Raised(d, e) ==
    [d EXCEPT !.pc = "exited",
              !.queue = IF d.variant = "DaemonThread" THEN Append(@, e) ELSE @,
              !.error = IF d.variant = "AsyncDaemon" THEN e ELSE @,
              !.start = 0, !.elapsed = 0, !.wait = 0, !.seen = <<>>]

\* the daemon at the head of its loop, the locals of the last iteration gone
AtHead(d) ==
    [d EXCEPT !.pc = "head", !.start = 0, !.elapsed = 0, !.wait = 0, !.seen = <<>>]

\* a job that writes x <= y
JobResult_Inverted(values) ==
    [n \in {"result"} |-> IF Leq(values["x"], values["y"]) THEN Bit(1) ELSE Bit(0)]

\* x > y of the job, on the values get_holding_registers has returned
JobResult(values) ==
    [n \in {"result"} |-> IF Leq(values["x"], values["y"]) THEN Bit(0) ELSE Bit(1)]

\* the values maps the caller writes to the holding registers
XYPairs == {<<3, 5>>, <<9, 4>>, <<9, 10>>}

XYValues(xy) ==
    [n \in {"x", "y"} |-> IF n = "x" THEN Pos(<<xy[1]>>) ELSE Pos(<<xy[2]>>)]

XYInputs == { XYValues(xy) : xy \in XYPairs }

\* the timeouts stop is called with
StopTimeouts == {None, Some(3)}

\* a call of the daemon or of the context by the caller
DaemonCall(name) == [NoRequest EXCEPT !.facade = "daemon", !.name = name,
                                      !.unit = DaemonUnit]

\* the caller is between two calls and has calls left
CallingDaemon == req.pc \in {"idle", "done"} /\ nops < MaxOps

\* the import of the class and the call of its constructor
Make(variant) ==
    /\ daemon = NoDaemon
    /\ req.pc \in {"idle", "done"}
    /\ \E period \in Periods :
          \E o \in {NewDaemon(variant, period)} :
              /\ made' = [variant |-> variant, period |-> period, error |-> o.error]
              /\ daemon' = o.daemon
    /\ UNCHANGED facadeVars

\* AsyncDaemon(job, period)
async_daemon == Make("AsyncDaemon")

\* DaemonThread(job, period)
daemon_thread == Make("DaemonThread")

\* from pretty_modbus.threaded import Daemon; Daemon(job, period)
threaded_daemon == Make("Daemon")

\* daemon.serve(context): the thread is started, the task is created
serve ==
    /\ daemon.pc = "created"
    /\ req.pc \in {"idle", "done"}
    /\ daemon' = [daemon EXCEPT !.pc = "head"]
    /\ UNCHANGED <<facadeVars, made>>

\* _serve of DaemonThread and threaded.Daemon: the test of the loop and
\* start_time = time.perf_counter()
head ==
    /\ daemon.pc = "head"
    /\ ~Cooperative
    /\ IF LoopEnds(daemon)
       THEN daemon' = [daemon EXCEPT !.pc = "exited"]
       ELSE \E t \in Starts : daemon' = [daemon EXCEPT !.pc = "job", !.start = t]
    /\ UNCHANGED <<facadeVars, made>>

\* the job on the thread of the daemon: values = context.get_holding_registers()
job_get ==
    /\ daemon.pc = "job"
    /\ UNCHANGED <<facadeVars, made>>
    /\ \/ "raises" \in JobOutcomes /\ daemon' = Raised(daemon, "ValueError")
       \/ /\ "returns" \in JobOutcomes
          /\ \E o \in {ContextGet(store, DaemonUnit, "h", None)} :
                daemon' = IF o.error # "none" THEN Raised(daemon, o.error)
                          ELSE [daemon EXCEPT !.pc = "compared", !.seen = o.result]

\* the job on the thread of the daemon: context.set_discrete_inputs({"result":
\* x > y}); then diff, wait and the call of time.sleep(wait)
job_set ==
    /\ daemon.pc = "compared"
    /\ UNCHANGED <<req, lastWrite, nops, active, worker, commands, responses,
                   phase, env, made>>
    /\ \E o \in {ContextSet(store, DaemonUnit, "d", JobResult(daemon.seen))} :
          /\ store' = o.store
          /\ \E elapsed \in Elapsed :
                daemon' = IF o.error # "none" THEN Raised(daemon, o.error)
                          ELSE [daemon EXCEPT
                                   !.pc = "sleeping", !.elapsed = elapsed,
                                   !.wait = Wait(daemon.variant, daemon.period,
                                                 daemon.start,
                                                 daemon.start + elapsed)]

\* _serve_coro of AsyncDaemon from the test of the loop to the await of
\* asyncio.sleep(wait): the job runs without a suspension point
serve_coro ==
    /\ daemon.pc = "head"
    /\ Cooperative
    /\ req.pc \in {"idle", "done", "awaiting"}
    /\ UNCHANGED <<req, lastWrite, nops, active, worker, commands, responses,
                   phase, env, made>>
    /\ IF LoopEnds(daemon)
       THEN daemon' = [daemon EXCEPT !.pc = "exited"] /\ UNCHANGED store
       ELSE \/ /\ "raises" \in JobOutcomes
               /\ daemon' = Raised(daemon, "ValueError") /\ UNCHANGED store
            \/ /\ "returns" \in JobOutcomes
               /\ \E g \in {ContextGet(store, DaemonUnit, "h", None)} :
                     IF g.error # "none"
                     THEN daemon' = Raised(daemon, g.error) /\ UNCHANGED store
                     ELSE \E o \in {ContextSet(store, DaemonUnit, "d", JobResult(g.result))} :
                             /\ store' = o.store
                             /\ \E t \in Starts, elapsed \in Elapsed :
                                   daemon' =
                                      IF o.error # "none" THEN Raised(daemon, o.error)
                                      ELSE [daemon EXCEPT
                                               !.pc = "sleeping", !.start = t,
                                               !.elapsed = elapsed, !.seen = g.result,
                                               !.wait = Wait(daemon.variant, daemon.period,
                                                             t, t + elapsed)]

\* the sleep is over and the loop goes to its head
wake ==
    /\ daemon.pc = "sleeping"
    /\ Cooperative => req.pc \in {"idle", "done", "awaiting"}
    /\ daemon' = AtHead(daemon)
    /\ UNCHANGED <<facadeVars, made>>

\* a step of the thread or task of the daemon
DaemonStep == head \/ job_get \/ job_set \/ serve_coro \/ wake

\* the call and its values map once every chunk is written
WrittenBy(r) == [unit |-> r.unit, space |-> r.space, values |-> r.values]

\* context.set_holding_registers(values) on the thread of the caller, up to
\* the loop over the payloads: the lookup of the layout and build_payload
set_payloads ==
    /\ CallingDaemon
    /\ ~Cooperative
    /\ \E values \in XYInputs :
          \E g \in {GetFallible(DaemonUnit, "h")} :
          \E b \in {BuildPayload(g.layout[1], values)} :
              req' = [DaemonCall("set_holding_registers")
                         EXCEPT !.space = "h", !.values = values,
                                !.pending = b.chunks, !.pc = "setting"]
    /\ nops' = nops + 1
    /\ UNCHANGED <<store, lastWrite, active, worker, commands, responses, phase,
                   env, daemonVars>>

\* a set_holding_registers that hands all its chunks to one setValues step
set_values_Whole ==
    /\ req.facade = "daemon"
    /\ req.pc = "setting"
    /\ store' = SetChunks(store, req.unit, req.space, req.pending).store
    /\ req' = Done([req EXCEPT !.pending = <<>>], "none")
    /\ lastWrite' = WrittenBy(req)
    /\ UNCHANGED <<nops, active, worker, commands, responses, phase, env, daemonVars>>

\* one turn of the loop of set_holding_registers: setValues of one payload
set_values ==
    /\ req.facade = "daemon"
    /\ req.pc = "setting"
    /\ store' = SetChunks(store, req.unit, req.space, <<Head(req.pending)>>).store
    /\ IF Tail(req.pending) = <<>>
       THEN /\ req' = Done([req EXCEPT !.pending = <<>>], "none")
            /\ lastWrite' = WrittenBy(req)
       ELSE /\ req' = [req EXCEPT !.pending = Tail(@)]
            /\ UNCHANGED lastWrite
    /\ UNCHANGED <<nops, active, worker, commands, responses, phase, env, daemonVars>>

\* a set_holding_registers_coro that is suspended before each setValues
set_holding_registers_coro_Yielding ==
    /\ CallingDaemon
    /\ Cooperative
    /\ \E values \in XYInputs :
          \E g \in {GetFallible(DaemonUnit, "h")} :
          \E b \in {BuildPayload(g.layout[1], values)} :
              req' = [DaemonCall("set_holding_registers_coro")
                         EXCEPT !.space = "h", !.values = values,
                                !.pending = b.chunks, !.pc = "setting"]
    /\ nops' = nops + 1
    /\ UNCHANGED <<store, lastWrite, active, worker, commands, responses, phase,
                   env, daemonVars>>

\* await context.set_holding_registers_coro(values): the coroutine calls
\* set_holding_registers and has no await of its own
set_holding_registers_coro ==
    /\ CallingDaemon
    /\ Cooperative
    /\ \E values \in XYInputs :
          \E o \in {ContextSet(store, DaemonUnit, "h", values)} :
              /\ store' = o.store
              /\ req' = [DaemonCall("set_holding_registers_coro")
                            EXCEPT !.space = "h", !.values = values,
                                   !.pc = "done", !.error = o.error]
              /\ lastWrite' = WrittenBy(req')
    /\ nops' = nops + 1
    /\ UNCHANGED <<active, worker, commands, responses, phase, env, daemonVars>>

\* DaemonThread.stop(timeout) up to the event: the exception on the queue is
\* raised, if there is one
thread_stop ==
    /\ CallingDaemon
    /\ daemon.variant = "DaemonThread"
    /\ \E timeout \in StopTimeouts :
          LET r == [DaemonCall("stop") EXCEPT !.timeout = timeout]
          IN  IF daemon.queue # <<>>
              THEN /\ req' = Done(r, Head(daemon.queue))
                   /\ daemon' = [daemon EXCEPT !.queue = Tail(@)]
              ELSE /\ req' = [r EXCEPT !.pc = "stopping"]
                   /\ UNCHANGED daemon
    /\ nops' = nops + 1
    /\ UNCHANGED <<store, lastWrite, active, worker, commands, responses, phase,
                   env, made>>

\* DaemonThread.stop: self._event.set(), and the join of a thread that was
\* never started fails
set_event ==
    /\ req.facade = "daemon"
    /\ req.pc = "stopping"
    /\ daemon' = [daemon EXCEPT !.event = TRUE]
    /\ req' = IF daemon.pc = "created" THEN Done(req, "AttributeError")
              ELSE [req EXCEPT !.pc = "joining"]
    /\ UNCHANGED <<store, lastWrite, nops, active, worker, commands, responses,
                   phase, env, made>>

\* DaemonThread.stop: join returns with the thread ended
thread_join ==
    /\ req.facade = "daemon"
    /\ req.pc = "joining"
    /\ daemon.pc = "exited"
    /\ req' = Done(req, "none")
    /\ UNCHANGED <<store, lastWrite, nops, active, worker, commands, responses,
                   phase, env, daemonVars>>

\* DaemonThread.stop: join returns on its timeout, and so does stop
thread_join_timeout ==
    /\ req.facade = "daemon"
    /\ req.pc = "joining"
    /\ req.timeout # None
    /\ daemon.pc # "exited"
    /\ req' = Done(req, "none")
    /\ UNCHANGED <<store, lastWrite, nops, active, worker, commands, responses,
                   phase, env, daemonVars>>

\* await daemon.stop() of AsyncDaemon up to the await: the event is set and
\* the task returned, which is None before serve
async_stop ==
    /\ CallingDaemon
    /\ daemon.variant = "AsyncDaemon"
    /\ daemon' = [daemon EXCEPT !.event = TRUE]
    /\ req' = IF daemon.pc = "created" THEN Done(DaemonCall("stop"), "TypeError")
              ELSE [DaemonCall("stop") EXCEPT !.pc = "awaiting"]
    /\ nops' = nops + 1
    /\ UNCHANGED <<store, lastWrite, active, worker, commands, responses, phase,
                   env, made>>

\* the task awaited is done: its exception is raised in the caller
await_task ==
    /\ req.facade = "daemon"
    /\ req.pc = "awaiting"
    /\ daemon.pc \in {"exited", "cancelled"}
    /\ req' = Done(req, IF daemon.pc = "cancelled" THEN "CancelledError"
                        ELSE daemon.error)
    /\ UNCHANGED <<store, lastWrite, nops, active, worker, commands, responses,
                   phase, env, daemonVars>>

\* AsyncDaemon.cancel(): the task, suspended in its sleep or not yet run, is
\* cancelled; a task that is done stays as it is
cancel ==
    /\ CallingDaemon
    /\ daemon.variant = "AsyncDaemon"
    /\ IF daemon.pc = "created"
       THEN req' = Done(DaemonCall("cancel"), "AttributeError") /\ UNCHANGED daemon
       ELSE /\ req' = Done(DaemonCall("cancel"), "none")
            /\ daemon' = IF Alive(daemon) THEN [AtHead(daemon) EXCEPT !.pc = "cancelled"]
                         ELSE daemon
    /\ nops' = nops + 1
    /\ UNCHANGED <<store, lastWrite, active, worker, commands, responses, phase,
                   env, made>>

InitDaemon ==
    /\ store = [u \in {DaemonUnit} |-> [sp \in Spaces |-> EmptyBlock]]
    /\ req = NoRequest
    /\ active = FALSE
    /\ lastWrite = NoWrite
    /\ nops = 0
    /\ worker = NoWorker
    /\ commands = <<>>
    /\ responses = <<>>
    /\ phase = "created"
    /\ env = "plain"
    /\ DaemonIdle
    /\ CallersIdle
    /\ LayoutIdle
    /\ CodecIdle

NextDaemon ==
    \/ async_daemon /\ UNCHANGED <<codecVars, layoutVars, callerVars>>
    \/ daemon_thread /\ UNCHANGED <<codecVars, layoutVars, callerVars>>
    \/ threaded_daemon /\ UNCHANGED <<codecVars, layoutVars, callerVars>>
    \/ serve /\ UNCHANGED <<codecVars, layoutVars, callerVars>>
    \/ head /\ UNCHANGED <<codecVars, layoutVars, callerVars>>
    \/ job_get /\ UNCHANGED <<codecVars, layoutVars, callerVars>>
    \/ job_set /\ UNCHANGED <<codecVars, layoutVars, callerVars>>
    \/ serve_coro /\ UNCHANGED <<codecVars, layoutVars, callerVars>>
    \/ wake /\ UNCHANGED <<codecVars, layoutVars, callerVars>>
    \/ set_payloads /\ UNCHANGED <<codecVars, layoutVars, callerVars>>
    \/ set_values /\ UNCHANGED <<codecVars, layoutVars, callerVars>>
    \/ set_holding_registers_coro /\ UNCHANGED <<codecVars, layoutVars, callerVars>>
    \/ thread_stop /\ UNCHANGED <<codecVars, layoutVars, callerVars>>
    \/ set_event /\ UNCHANGED <<codecVars, layoutVars, callerVars>>
    \/ thread_join /\ UNCHANGED <<codecVars, layoutVars, callerVars>>
    \/ thread_join_timeout /\ UNCHANGED <<codecVars, layoutVars, callerVars>>
    \/ async_stop /\ UNCHANGED <<codecVars, layoutVars, callerVars>>
    \/ await_task /\ UNCHANGED <<codecVars, layoutVars, callerVars>>
    \/ cancel /\ UNCHANGED <<codecVars, layoutVars, callerVars>>

SpecDaemon == InitDaemon /\ [][NextDaemon]_vars

\* the thread of the daemon is scheduled, and the event loop runs the task
\* of the daemon, again and again
SpecDaemonFair ==
    SpecDaemon /\ WF_vars(DaemonStep /\ UNCHANGED <<codecVars, layoutVars, callerVars>>)

(***************************************************************************)
(* Properties of the facades                                               *)
(***************************************************************************)
ReadNames ==
    {"get_holding_registers", "get_input_registers", "get_coils",
     "get_discrete_inputs", "read_holding_registers", "read_input_registers",
     "read_coils", "read_discrete_inputs"}

WriteNames ==
    {"set_holding_registers", "set_input_registers", "set_coils",
     "set_discrete_inputs", "write_holding_registers", "write_coils"}

\* the layout the current call addresses
ReqLayout == GetFallible(req.unit, req.space).layout[1]

\* a read has returned from the unit and sub-space of the last completed
\* write, which nothing has overwritten since
ReadBack ==
    /\ req.name \in ReadNames
    /\ req.pc = "done"
    /\ req.error = "none"
    /\ lastWrite # NoWrite
    /\ lastWrite.unit = req.unit
    /\ lastWrite.space = req.space

\* the written variables the read returns
ReadBackNames == DOMAIN lastWrite.values \cap DOMAIN req.result

\* every coil variable returned is a scalar if its size is 1 and a list of
\* its size otherwise
CoilShapes ==
    \A n \in DOMAIN req.result :
        LET v == VariableNamed(ReqLayout, n) IN
        v.kind = "coil" =>
            IF v.size = 1 THEN req.result[n].k = "bit"
            ELSE req.result[n].k = "bits" /\ Len(req.result[n].bs) = v.size

\* the registers of every variable of the last write hold its chunks as
\* the integers 256*b[0] + b[1]
StoredBigEndian ==
    (lastWrite # NoWrite /\ lastWrite.space \in RegisterSpaces) =>
        \A n \in DOMAIN lastWrite.values :
            LET l == GetFallible(lastWrite.unit, lastWrite.space).layout[1]
                v == VariableNamed(l, n)
                enc == EncodeVariable(l, v, lastWrite.values[n])
            IN  GetValues(store[lastWrite.unit][lastWrite.space], v.address, v.size)
                   = [i \in 1..v.size |-> 256 * enc[i][1] + enc[i][2]]

\* the value a written value reads back as: a string comes back padded with
\* blanks to the length of its variable
Expected(v, val) ==
    IF v.kind = "str" THEN String(Pad(val.s, v.length)) ELSE val

\* C9 as stated: a read that follows a write returns for every written
\* variable exactly the written value, strings included.
C9_ExactValue ==
    ReadBack =>
        \A n \in ReadBackNames : req.result[n] = lastWrite.values[n]

\* C9: for the local context (set_* then get_*) and the remote client
\* (write_* then read_*), every sub-space and every byteorder and wordorder,
\* a read with no write in between returns for every written variable the
\* written value, a string being returned right-padded with blanks to the
\* declared length of its variable; a read of all variables returns every
\* written one; a coil variable of size 1 reads back as a scalar and one of
\* size n > 1 as a list of n values; the registers hold each 2-byte chunk b
\* as 256*b[0] + b[1].
C9_RoundTrip ==
    /\ ReadBack =>
          /\ \A n \in ReadBackNames :
                req.result[n] =
                   Expected(VariableNamed(ReqLayout, n), lastWrite.values[n])
          /\ (req.variables = None /\ req.var = None) =>
                DOMAIN lastWrite.values \subseteq DOMAIN req.result
          /\ CoilShapes
    /\ StoredBigEndian

\* the client has read back all three holding registers variables of unit 0
\* after writing them, the string shorter than its variable
C9_Witness ==
    /\ ReadBack
    /\ req.name = "read_holding_registers"
    /\ req.unit = 0
    /\ DOMAIN lastWrite.values = {"str", "i", "f"}
    /\ lastWrite.values["str"] = String(<<97, 98>>)
    /\ req.result["str"] = String(<<97, 98, 32>>)
    /\ req.result["i"] = Neg(<<8478, 52569>>)

\* the context has read back the coils of unit 0 after setting them
C9_WitnessCoils ==
    /\ ReadBack
    /\ req.name = "get_coils"
    /\ DOMAIN lastWrite.values = {"x", "y", "z"}
    /\ req.result["x"] = Bits(<<0, 1>>)
    /\ req.result["y"] = Bit(1)

\* the variables of a unit and sub-space as a read of all of them returns
\* them from the given datastore: those that lie within the block
ReadAll(st, unit, space) ==
    LET l == ServerLayout[unit][space][1]
        held == {i \in 1..Len(l.variables) : End(l.variables[i]) <= StoreSize}
        names == {l.variables[i].name : i \in held}
        end == IF LayoutEnd(l) <= StoreSize THEN LayoutEnd(l) ELSE StoreSize
    IN  Decode(l, GetValues(st[unit][space], LayoutAddress(l),
                            end - LayoutAddress(l)),
               IF names = LayoutNames(l) THEN None ELSE Some(names)).result

\* the cell is inside the address range of a variable named in the values
\* map of the current call
InWrittenRange(a) ==
    \E n \in DOMAIN req'.values :
        /\ n \in LayoutNames(GetFallible(req'.unit, req'.space).layout[1])
        /\ LET v == VariableNamed(GetFallible(req'.unit, req'.space).layout[1], n)
           IN  v.address <= a /\ a < End(v)

\* C10: a step of set_* or write_* changes only cells inside the address
\* ranges of the variables named in values, in the addressed unit and
\* sub-space; every other variable of the same layout, every variable of the
\* other sub-spaces and every variable of the other units reads back the
\* value it had before the step (the cells of the other sub-spaces and units
\* being unchanged, and a read being a function of the cells).
C10_Frame ==
    [][ \A u \in DOMAIN store : \A sp \in Spaces :
           store'[u][sp] # store[u][sp] =>
              /\ req'.name \in WriteNames
              /\ u = req'.unit
              /\ sp = req'.space
              /\ \A a \in 0..(StoreSize - 1) :
                    store'[u][sp][a] # store[u][sp][a] => InWrittenRange(a)
              /\ LET before == ReadAll(store, u, sp)
                      after == ReadAll(store', u, sp)
                 IN  \A n \in DOMAIN before :
                        n \notin DOMAIN req'.values => after[n] = before[n]
      ]_vars

\* only "str" has been written to holding registers that held another
\* value of "i" from an earlier write, which they still hold
C10_Witness ==
    /\ req.name \in {"set_holding_registers", "write_holding_registers"}
    /\ req.unit = 0
    /\ req.pc = "done"
    /\ req.error = "none"
    /\ DOMAIN req.values = {"str"}
    /\ ReadAll(store, 0, "h")["str"] = String(<<65, 66, 67>>)
    /\ ReadAll(store, 0, "h")["i"] = Neg(<<8478, 52569>>)

\* the current call is a read that has passed the lookup of its layout
ReadPastLookup ==
    /\ req.name \in ReadNames
    /\ GetFallible(req.unit, req.space).error = "none"

\* the request reads the whole range of the layout of the current call:
\* layout.address with count layout.size
WholeRange(rpc) ==
    /\ rpc.fn = IF req.facade = "context" THEN "getValues" ELSE ReadFn(req.space)
    /\ rpc.unit = req.unit
    /\ rpc.address = LayoutAddress(ReqLayout)
    /\ rpc.count = LayoutEnd(ReqLayout) - LayoutAddress(ReqLayout)

\* the names a read returns when it succeeds
ReturnedNames ==
    IF req.var # None THEN {req.var[1]}
    ELSE IF req.variables = None THEN LayoutNames(ReqLayout)
    ELSE req.variables[1]

\* C11 as stated: every read that has passed the lookup and has returned or
\* raised has issued exactly one request.
C11_ExactlyOneRequest ==
    (ReadPastLookup /\ req.pc = "done") => Len(req.sent) = 1

\* C11: a get_* or read_* (local context, Client, Protocol, single-variable
\* helpers included) that passes the lookup of the layout issues at most
\* one request, which reads layout.size = end - address cells from
\* layout.address whatever subset is requested; it has issued exactly that
\* one when it ends, unless it raised NoSuchSlave (local context, unit
\* absent from the datastore) or NotConnected (Client not started), which
\* are raised before any request; the datastore or transport is called with
\* nothing but the requests issued; the map of a successful read has
\* exactly the requested names, or all names of the layout when none is
\* requested.
C11_SingleRangeRead ==
    ReadPastLookup =>
        /\ Len(req.sent) <= 1
        /\ \A i \in 1..Len(req.sent) : WholeRange(req.sent[i])
        /\ \A i \in 1..Len(req.wire) : i <= Len(req.sent) /\ req.wire[i] = req.sent[i]
        /\ req.pc = "done" =>
              /\ req.wire = req.sent
              /\ req.sent = <<>> <=> req.error \in {"NoSuchSlave", "NotConnected"}
              /\ req.error = "NoSuchSlave" =>
                    req.facade = "context" /\ req.unit \notin DOMAIN store
              /\ req.error = "NotConnected" => req.facade = "client"
              /\ req.error = "none" => DOMAIN req.result = ReturnedNames

\* the started client has read one of the three holding registers variables
\* of unit 0 with a single request for all six registers
C11_Witness ==
    /\ req.facade = "client"
    /\ req.name = "read_holding_registers"
    /\ req.pc = "done"
    /\ req.error = "none"
    /\ req.unit = 0
    /\ req.variables = Some({"str"})
    /\ DOMAIN req.result = {"str"}
    /\ Len(req.sent) = 1
    /\ req.sent[1].address = 1
    /\ req.sent[1].count = 6
    /\ req.wire = req.sent

\* the context has raised NoSuchSlave for a unit that has a layout and no
\* datastore, without a call of getValues
C11_WitnessNoRequest ==
    /\ ReadPastLookup
    /\ req.facade = "context"
    /\ req.pc = "done"
    /\ req.error = "NoSuchSlave"
    /\ req.sent = <<>>

\* the current call has raised the error of the lookup and has done nothing
\* else
LookupFailed(error) ==
    /\ req.pc = "done"
    /\ req.error = error
    /\ req.sent = <<>>
    /\ req.wire = <<>>
    /\ req.result = <<>>

\* C12: every read_* and write_* of Client and Protocol and every get_* and
\* set_* of the local context raises NoSuchSlaveLayout if the unit is not a
\* key of the ServerContextLayout, and MissingSubLayout if the layouts of
\* the unit have none for the sub-space, whatever the variables or values
\* argument (empty, unknown names) and before any request; no call raises
\* either error otherwise.
C12_LookupErrors ==
    req.name \in ReadNames \cup WriteNames =>
        /\ req.unit \notin DOMAIN ServerLayout => LookupFailed("NoSuchSlaveLayout")
        /\ (req.unit \in DOMAIN ServerLayout /\ ServerLayout[req.unit][req.space] = None)
              => LookupFailed("MissingSubLayout")
        /\ req.error = "NoSuchSlaveLayout" => req.unit \notin DOMAIN ServerLayout
        /\ req.error = "MissingSubLayout" =>
              /\ req.unit \in DOMAIN ServerLayout
              /\ ServerLayout[req.unit][req.space] = None

\* Protocol.write_coils with an unknown name has raised MissingSubLayout for
\* unit 1, which has layouts for registers only
C12_Witness ==
    /\ req.facade = "protocol"
    /\ req.name = "write_coils"
    /\ req.unit = 1
    /\ "spam" \in DOMAIN req.values
    /\ LookupFailed("MissingSubLayout")

\* Client.read_holding_registers of an unknown name has raised
\* NoSuchSlaveLayout for unit 3, which has no layouts
C12_WitnessNoLayout ==
    /\ req.facade = "client"
    /\ req.name = "read_holding_registers"
    /\ req.unit = 3
    /\ req.variables = Some({"spam"})
    /\ LookupFailed("NoSuchSlaveLayout")

\* the current call is one of the eight operations of the local context
LocalCall == req.facade = "context" /\ req.name \in ReadNames \cup WriteNames

\* the unit of the current call has a layout for its sub-space and no
\* datastore
LayoutWithoutStore ==
    /\ req.unit \in DOMAIN ServerLayout
    /\ ServerLayout[req.unit][req.space] # None
    /\ req.unit \notin DOMAIN store

\* C13: in the local context, for each of the eight operations, a unit
\* without layouts gives NoSuchSlaveLayout and a unit without the
\* sub-layout gives MissingSubLayout, both also when the unit is in the
\* datastore; a unit with the sub-layout and without datastore gives
\* NoSuchSlave for a get_* with any variables argument and for a set_* of
\* declared variables, while a set_* of nothing returns and a set_* that
\* names an undeclared variable raises VariableNotFound from build_payload;
\* NoSuchSlave is raised in no other case.
C13_Precedence ==
    LocalCall =>
        /\ req.pc = "done"
        /\ req.unit \notin DOMAIN ServerLayout => req.error = "NoSuchSlaveLayout"
        /\ (req.unit \in DOMAIN ServerLayout /\ ServerLayout[req.unit][req.space] = None)
              => req.error = "MissingSubLayout"
        /\ (LayoutWithoutStore /\ req.name \in ReadNames) => req.error = "NoSuchSlave"
        /\ (LayoutWithoutStore /\ req.name \in WriteNames) =>
              req.error = IF DOMAIN req.values = {} THEN "none"
                          ELSE IF DOMAIN req.values \subseteq LayoutNames(ReqLayout)
                          THEN "NoSuchSlave"
                          ELSE "VariableNotFound"
        /\ req.error = "NoSuchSlave" => LayoutWithoutStore

\* get_discrete_inputs of an undeclared name has raised NoSuchSlave for
\* unit 2, which has layouts and no datastore
C13_Witness ==
    /\ LocalCall
    /\ req.name = "get_discrete_inputs"
    /\ req.unit = 2
    /\ req.variables = Some({"spam"})
    /\ req.error = "NoSuchSlave"

\* set_input_registers has raised NoSuchSlaveLayout for unit 3, which is in
\* the datastore
C13_WitnessStored ==
    /\ LocalCall
    /\ req.name = "set_input_registers"
    /\ req.unit = 3
    /\ req.unit \in DOMAIN store
    /\ req.error = "NoSuchSlaveLayout"

\* set_coils of the declared variable has raised NoSuchSlave for unit 2
C13_WitnessSet ==
    /\ LocalCall
    /\ req.name = "set_coils"
    /\ req.unit = 2
    /\ DOMAIN req.values = {"x"}
    /\ req.error = "NoSuchSlave"

\* the current call is a read_* or write_* of Client or Protocol
RemoteCall ==
    /\ req.facade \in {"client", "protocol"}
    /\ req.name \in ReadNames \cup WriteNames

\* the function code expected for the operation
ExpectedCode(name) ==
    CASE name = "read_coils" -> 1
      [] name = "read_discrete_inputs" -> 2
      [] name = "read_holding_registers" -> 3
      [] name = "read_input_registers" -> 4
      [] name = "write_coils" -> 15
      [] name = "write_holding_registers" -> 16

\* C14: once a read_* or write_* of Client or Protocol has taken a response,
\* it has raised ModbusResponse if and only if the function code of that
\* response differs from the code expected for the operation (0x01
\* read_coils, 0x02 read_discrete_inputs, 0x03 read_holding_registers, 0x04
\* read_input_registers, 0x0F write_coils, 0x10 write_holding_registers);
\* the error carries that response, and the call has then ended without a
\* result; ModbusResponse is raised for nothing but a response.
C14_ResponseValidation ==
    /\ (RemoteCall /\ req.response.kind = "response") =>
          /\ req.error = "ModbusResponse"
                <=> req.response.function_code # ExpectedCode(req.name)
          /\ req.error = "ModbusResponse" =>
                /\ req.pc = "done"
                /\ req.carries = req.response
                /\ req.result = <<>>
          /\ req.error # "ModbusResponse" => req.carries = NoMessage
    /\ req.error = "ModbusResponse" => RemoteCall /\ req.response.kind = "response"

\* Client.write_holding_registers has raised ModbusResponse with the
\* exception response 0x90 of a server that lacks unit 2
C14_Witness ==
    /\ req.facade = "client"
    /\ req.name = "write_holding_registers"
    /\ req.unit = 2
    /\ req.error = "ModbusResponse"
    /\ req.carries.function_code = 144

\* Protocol.read_discrete_inputs has raised ModbusResponse with the
\* exception response 0x82 and returns nothing
C14_WitnessRead ==
    /\ req.facade = "protocol"
    /\ req.name = "read_discrete_inputs"
    /\ req.error = "ModbusResponse"
    /\ req.carries.function_code = 130
    /\ req.result = <<>>

\* Protocol.write_coils has returned after a response with code 0x0F
C14_WitnessAccepted ==
    /\ req.facade = "protocol"
    /\ req.name = "write_coils"
    /\ req.pc = "done"
    /\ req.error = "none"
    /\ req.response.function_code = 15

\* the current call is a write_* of Client or Protocol that has passed the
\* lookup of its layout
WritePastLookup ==
    /\ RemoteCall
    /\ req.name \in WriteNames
    /\ GetFallible(req.unit, req.space).error = "none"

\* the request is the write of the chunk to the unit of the current call
WritesChunk(rpc, chunk) ==
    /\ rpc.fn = IF req.name = "write_coils" THEN "write_coils" ELSE "write_registers"
    /\ rpc.unit = req.unit
    /\ rpc.address = chunk.address
    /\ rpc.values = chunk.values

\* C15: write_holding_registers and write_coils of Client and Protocol issue
\* for the chunks of build_payload, in their order of ascending address, one
\* write request each with the address and the values of the chunk, and no
\* other request; the transport is called with the requests in the order
\* they are issued, each before the next is issued; a write that returns
\* has made as many requests as there are chunks, and one that raises has
\* made no request after the one that failed.
C15_WriteRequests ==
    WritePastLookup =>
        LET b == BuildPayload(ReqLayout, req.values) IN
        IF b.error # "none" THEN req.sent = <<>> /\ req.wire = <<>>
        ELSE /\ Len(req.sent) <= Len(b.chunks)
             /\ \A i \in 1..Len(req.sent) : WritesChunk(req.sent[i], b.chunks[i])
             /\ \A i \in 1..(Len(req.sent) - 1) :
                   req.sent[i].address < req.sent[i + 1].address
             /\ Len(req.wire) <= Len(req.sent)
             /\ Len(req.sent) - Len(req.wire) <= 1
             /\ \A i \in 1..Len(req.wire) : req.wire[i] = req.sent[i]
             /\ req.pc = "done" => req.wire = req.sent
             /\ (req.pc = "done" /\ req.error = "none") =>
                   Len(req.wire) = Len(b.chunks)

\* Client.write_holding_registers has written "str" and "f" of unit 0 with
\* two requests, at addresses 1 and 6
C15_Witness ==
    /\ req.facade = "client"
    /\ req.name = "write_holding_registers"
    /\ req.unit = 0
    /\ DOMAIN req.values = {"str", "f"}
    /\ req.pc = "done"
    /\ req.error = "none"
    /\ Len(req.wire) = 2
    /\ req.wire[1].address = 1
    /\ req.wire[2].address = 6

\* Protocol.write_coils is awaiting the answer to the second of its two
\* requests
C15_WitnessPending ==
    /\ req.facade = "protocol"
    /\ req.name = "write_coils"
    /\ req.pc = "pending"
    /\ Len(req.sent) = 2
    /\ Len(req.wire) = 1

\* the current call is a read_* or write_* of the Client
ClientCall == req.facade = "client" /\ req.name \in ReadNames \cup WriteNames

\* the current call of the Client gets as far as _execute: it has passed
\* the lookup, and a write has a chunk to send
ReachesExecute ==
    /\ ClientCall
    /\ GetFallible(req.unit, req.space).error = "none"
    /\ req.name \in WriteNames =>
          /\ BuildPayload(ReqLayout, req.values).error = "none"
          /\ BuildPayload(ReqLayout, req.values).chunks # <<>>

\* C16: a call of the Client made while the client is not started, that is
\* before a start has returned normally or after a stop has returned
\* normally, puts no command on the command queue and, if it gets as far as
\* _execute, raises NotConnected.
C16_NotConnectedUnlessStarted ==
    (ClientCall /\ phase # "started") =>
        /\ req.sent = <<>>
        /\ ReachesExecute => req.pc = "done" /\ req.error = "NotConnected"

\* after stop has returned, read_holding_registers has put its command on
\* the queue of the ended worker and waits for a response
C16_Witness ==
    /\ phase = "stopped"
    /\ worker.pc = "exited"
    /\ req.name = "read_holding_registers"
    /\ req.pc = "awaiting"
    /\ Len(commands) = 1
    /\ responses = <<>>

\* before start, read_coils has raised NotConnected and put no command
C16_WitnessCreated ==
    /\ phase = "created"
    /\ req.name = "read_coils"
    /\ req.error = "NotConnected"
    /\ commands = <<>>

\* the number of items of the queue that satisfy the test
Count(q, Test(_)) == Cardinality({i \in 1..Len(q) : Test(q[i])})

IsRpcCommand(c) == c # DISCONNECT

\* the item of the response queue is the outcome of an RPC
IsRpcOutcome(m) ==
    \/ m.kind = "response"
    \/ m.kind = "UnhandledException" /\ m.error = "ModbusIOException"

\* the RPCs sent and not yet answered: on the command queue, in the hands of
\* the worker, or as an outcome on the response queue
Outstanding ==
    Count(commands, IsRpcCommand)
       + (IF worker.pc = "executing" THEN 1 ELSE 0)
       + Count(responses, IsRpcOutcome)

\* the latest request of the current call
LastSent == req.sent[Len(req.sent)]

\* C17: with one caller, at most one RPC is outstanding, and it is the
\* latest request of the call that waits in _execute: on the command queue,
\* or with the worker, or answered on the response queue; a call that is
\* not waiting has none outstanding, so that the response an _execute takes
\* is the outcome of the command it has put; the response taken carries the
\* function code of the request or its exception code, and a read has taken
\* the cells its request names; the transport is called by the worker only,
\* with the command it holds, one call at a time.
C17_OneOutstanding ==
    /\ [](/\ Outstanding <= 1
          /\ Outstanding = 1 <=> (ClientCall /\ req.pc = "awaiting")
          /\ Outstanding = 1 =>
                /\ \A i \in 1..Len(commands) :
                      IsRpcCommand(commands[i]) => commands[i] = Command(LastSent)
                /\ worker.pc = "executing" => worker.rpc = LastSent
                /\ \A i \in 1..Len(responses) :
                      responses[i].kind = "response" =>
                          responses[i] = Serve(store, LastSent).response
          /\ (ClientCall /\ req.response.kind = "response") =>
                req.response.function_code % 128 = FunctionCode(req.sent[1].fn)
          /\ (ClientCall /\ req.name \in ReadNames /\ req.response.kind = "response") =>
                req.response = Serve(store, req.sent[1]).response)
    /\ [][(req'.facade = "client" /\ Len(req'.wire) > Len(req.wire)) =>
             /\ worker.pc = "executing"
             /\ worker'.pc # "executing"
             /\ req'.wire = Append(req.wire, worker.rpc)
             /\ worker.rpc = LastSent]_vars

\* the second write of the started client waits for the response to its
\* command, which the worker is executing
C17_Witness ==
    /\ phase = "started"
    /\ nops = 2
    /\ ClientCall
    /\ req.name \in WriteNames
    /\ req.pc = "awaiting"
    /\ worker.pc = "executing"
    /\ commands = <<>>
    /\ responses = <<>>
    /\ Outstanding = 1

\* C18: an exception raised on the worker thread, by the factory, by connect
\* or by an RPC, is put on the response queue in an UnhandledException
\* (connect, execute), and the call of the main side that takes an
\* UnhandledException from the queue, be it start, _execute or stop, ends by
\* raising the exception wrapped in it.
C18_ReraisesWrapped ==
    req.response.kind = "UnhandledException" =>
        req.pc = "done" /\ req.error = req.response.error

\* start has taken the UnhandledException of a failed connect from the
\* response queue and has raised AssertionError
C18_Witness ==
    /\ req.name = "start"
    /\ req.pc = "done"
    /\ req.response = UnhandledException("ConnectionException")
    /\ req.error = "AssertionError"
    /\ ~active

\* _execute has raised the exception of the transport that the worker had
\* wrapped
C18_WitnessExecute ==
    /\ ClientCall
    /\ req.pc = "done"
    /\ req.response = UnhandledException("ModbusIOException")
    /\ req.error = "ModbusIOException"

\* stop waits for the echo of DISCONNECT on the empty response queue of a
\* worker that has ended: no step of worker or caller follows
StopBlocked ==
    /\ req.name = "stop"
    /\ req.pc = "stopping"
    /\ worker.pc = "exited"
    /\ responses = <<>>

\* C19: stop(timeout) with a finite timeout, called on a started client,
\* never blocks for good: it is never left waiting where neither the echo
\* of DISCONNECT nor its timeout can end the wait; and it has returned
\* normally only with the worker ended.
C19_StopTerminates ==
    /\ (phase = "started" /\ req.timeout # None) => ~StopBlocked
    /\ (req.name = "stop" /\ req.pc = "done" /\ req.error = "none") =>
          worker.pc = "exited"

\* an RPC has raised in the worker of the started client, which has ended;
\* stop(1) has put DISCONNECT on the command queue and waits for the echo
C19_Witness ==
    /\ phase = "started"
    /\ StopBlocked
    /\ req.timeout = Some(1)
    /\ commands = <<DISCONNECT>>
    /\ nops >= 1

\* stop has returned after the echo of DISCONNECT and the end of the worker
C19_WitnessStopped ==
    /\ req.name = "stop"
    /\ req.pc = "done"
    /\ req.error = "none"
    /\ req.response = DisconnectEcho
    /\ worker.pc = "exited"
    /\ phase = "stopped"

\* the worker has connected the transport and announced it
HasConnected == worker.pc \in {"waiting", "executing", "leaving", "exited"}

\* C20: start has returned normally only if it took CONNECTED from the
\* response queue, which the worker puts after factory and connect, and
\* _active is set by nothing else; a start that raised for the timeout or
\* for another item than CONNECTED leaves _active False; the thread being
\* started once, no later start waits for CONNECTED again, so that the
\* client stays not started and every call that reaches _execute raises
\* NotConnected without putting a command.
C20_StartedOnlyAfterConnected ==
    /\ [](/\ active => phase # "created"
          /\ phase = "started" => active
          /\ active => HasConnected
          /\ (req.name = "start" /\ req.pc = "done" /\ req.error = "none") =>
                req.response = CONNECTED /\ active
          /\ (req.name = "start" /\ req.error \in {"Empty", "AssertionError"}) =>
                ~active /\ req.response # CONNECTED
          /\ (ReachesExecute /\ ~active) =>
                req.pc = "done" /\ req.error = "NotConnected" /\ req.sent = <<>>)
    /\ [][(~active /\ active') =>
             /\ req.name = "start"
             /\ req.pc = "starting"
             /\ responses # <<>>
             /\ Head(responses) = CONNECTED
             /\ req'.pc = "done"
             /\ req'.error = "none"]_vars
    /\ [][(req.pc # "starting" /\ req'.pc = "starting") => worker.pc = "unstarted"]_vars

\* start has returned: the worker has connected and waits for commands
C20_Witness ==
    /\ req.name = "start"
    /\ req.pc = "done"
    /\ req.error = "none"
    /\ req.response = CONNECTED
    /\ active
    /\ worker.pc = "waiting"

\* start has timed out; the worker has connected since, and a later
\* read_coils has raised NotConnected with CONNECTED still on the queue
C20_WitnessTimeout ==
    /\ ~active
    /\ responses = <<CONNECTED>>
    /\ worker.pc = "waiting"
    /\ req.name = "read_coils"
    /\ req.error = "NotConnected"
    /\ commands = <<>>

\* the current call is a single-variable read helper of Client or Protocol
\* that has got the response to its read
HelperAnswered ==
    /\ req.facade \in {"client", "protocol"}
    /\ req.name \in ReadNames
    /\ req.var # None
    /\ req.pc = "done"
    /\ req.response.kind = "response"
    /\ ~Rejected(req.sent[1], req.response)

\* C30: a single-variable read helper of Client or Protocol (read_coil,
\* read_discrete_input, read_holding_register, read_input_register) called
\* with a var that the addressed layout of an existing unit does not
\* declare raises VariableNotFound.
C30_HelperVariableNotFound ==
    (HelperAnswered /\ req.var[1] \notin LayoutNames(ReqLayout)) =>
        req.error = "VariableNotFound"

\* Client.read_coil("spam") has read the whole range of unit 0 and raised
\* KeyError
C30_Witness ==
    /\ HelperAnswered
    /\ req.facade = "client"
    /\ req.name = "read_coils"
    /\ req.unit = 0
    /\ req.var = Some("spam")
    /\ Len(req.wire) = 1
    /\ req.error = "KeyError"

\* Protocol.read_holding_register("spam") has raised KeyError as well
C30_WitnessProtocol ==
    /\ HelperAnswered
    /\ req.facade = "protocol"
    /\ req.name = "read_holding_registers"
    /\ req.var = Some("spam")
    /\ req.error = "KeyError"

\* the step puts the message on the response queue and nothing else
Puts(m) == responses' = Append(responses, m)

\* the step takes the head of the command queue
Takes == commands # <<>> /\ commands' = Tail(commands)

\* C26: the worker of the Client puts CONNECTED first, after factory and
\* connect have returned; then it takes one command at a time, in queue
\* order, and puts exactly one message for it before it takes the next: the
\* echo for DISCONNECT, after which it leaves, and for an RpcCall the result
\* of the method of the transport called with the arguments of the record
\* (or, if the call raises, the exception in an UnhandledException, after
\* which it leaves); a worker that has left its loop calls the transport no
\* more and puts nothing.
C26_WorkerProtocol ==
    /\ [][Len(responses') > Len(responses) =>
            \/ /\ worker.pc = "connecting"
               /\ \/ Puts(CONNECTED) /\ worker'.pc = "waiting"
                  \/ Puts(UnhandledException("ConnectionException"))
                        /\ worker'.pc = "leaving"
               /\ UNCHANGED <<commands, req>>
            \/ /\ worker.pc = "waiting"
               /\ Takes
               /\ Head(commands) = DISCONNECT
               /\ Puts(DisconnectEcho)
               /\ worker'.pc = "leaving"
               /\ UNCHANGED req
            \/ /\ worker.pc = "executing"
               /\ UNCHANGED commands
               /\ req'.wire = Append(req.wire, worker.rpc)
               /\ \/ Puts(Serve(store, worker.rpc).response)
                        /\ worker'.pc = "waiting"
                  \/ Puts(UnhandledException("ModbusIOException"))
                        /\ worker'.pc = "leaving"]_vars
    /\ [][Len(commands') < Len(commands) =>
            /\ worker.pc = "waiting"
            /\ Takes
            /\ IF Head(commands) = DISCONNECT
               THEN Puts(DisconnectEcho) /\ worker'.pc = "leaving"
               ELSE /\ worker' = [pc |-> "executing", rpc |-> Head(commands).rpc]
                    /\ UNCHANGED responses]_vars
    /\ [][worker'.pc # worker.pc =>
            /\ worker.pc = "executing" => Len(responses') = Len(responses) + 1
            /\ worker.pc = "leaving" => worker'.pc = "exited"
            /\ worker.pc # "exited"
            /\ worker'.pc = "waiting" => worker.pc \in {"connecting", "executing"}]_vars
    /\ [][Len(req'.wire) > Len(req.wire) =>
            worker.pc = "executing" /\ req'.wire = Append(req.wire, worker.rpc)]_vars
    /\ [](worker.pc = "executing" => worker.rpc # NoRpc)

\* the worker has echoed DISCONNECT to the stop that followed an RPC, and
\* has left
C26_Witness ==
    /\ worker.pc = "exited"
    /\ req.name = "stop"
    /\ req.response = DisconnectEcho
    /\ nops > 0
    /\ commands = <<>>
    /\ responses = <<>>

\* the worker has put the response to read_coils and waits for the next
\* command
C26_WitnessResult ==
    /\ worker.pc = "waiting"
    /\ req.name = "read_coils"
    /\ req.pc = "awaiting"
    /\ Len(req.wire) = 1
    /\ Len(responses) = 1
    /\ responses[1].kind = "response"

(***************************************************************************)
(* Properties of Struct                                                    *)
(***************************************************************************)
\* the register the builder emitted for the i-th struct, read in the
\* builder's byteorder
StructWord(i) == UnpackRegister(builder.byteorder, Build(builder)[i])

\* the bits of the register word from bit lo (counted from the least
\* significant, 0) on, n of them
BitsAt(w, lo, n) == (w \div 2 ^ lo) % 2 ^ n

\* C29: for every Struct whose widths sum to at most 16 and all values that
\* fit their fields, the encoding is exactly one register of two bytes in
\* which every field occupies its width, the first field in the most
\* significant of the used bits and each next field right below the one
\* before it, every bit above the fields is zero, and decoding with the
\* same byteorder returns the values map, also when the widths sum to less
\* than 16.
C29_StructRoundTrip ==
    /\ Len(Build(builder)) = Len(added)
    /\ \A i \in 1..Len(added) :
          LET fields == added[i].tag
              values == added[i].value
          IN  /\ TotalWidth(fields) <= 16
              /\ Len(Build(builder)[i]) = 2
              /\ \A k \in 1..2 : Build(builder)[i][k] \in 0..255
              /\ StructWord(i) < 2 ^ TotalWidth(fields)
              /\ \A j \in 1..Len(fields) :
                    BitsAt(StructWord(i),
                           TotalWidth(SubSeq(fields, j + 1, Len(fields))),
                           fields[j].width)
                       = FieldBits(fields[j], values[fields[j].name])
    /\ decoder # NoDecoder =>
          /\ decoder.byteorder = builder.byteorder
          /\ decoder.payload = Join(Build(builder))
    /\ \A i \in 1..Len(decoded) : decoded[i] = added[i].value

\* the struct with padding of the tests, widths 1 + 7 + 5, has been encoded
\* under little byteorder as 0x1427 and decoded
C29_Witness ==
    /\ builder.byteorder = "<"
    /\ Len(decoded) >= 1
    /\ TotalWidth(added[1].tag) = 13
    /\ added[1].value = [CHANGED |-> 1, ELEMENT_TYPE |-> 33, ELEMENT_ID |-> 7]
    /\ Build(builder)[1] = <<39, 20>>
    /\ decoded[1] = added[1].value

\* a struct with a signed field at its least value has been decoded after
\* a struct of 16 bits
C29_WitnessSigned ==
    /\ Len(decoded) = 2
    /\ TotalWidth(added[1].tag) = 16
    /\ added[2].value = [a |-> -8, b |-> 7, c |-> 63]
    /\ decoded[2] = added[2].value

(***************************************************************************)
(* Properties of the daemons                                               *)
(***************************************************************************)
\* a stop of the daemon has returned to the caller without an exception
\* after the thread or task had ended
StopReturned ==
    /\ req.facade = "daemon"
    /\ req.name = "stop"
    /\ req.pc = "done"
    /\ req.error = "none"
    /\ req.timeout = None

\* C21: every exception the job of a running daemon raises is raised again
\* in the caller of stop() of DaemonThread, or in the caller that awaits the
\* task stop() of AsyncDaemon returns, also when the job raises while stop()
\* is under way: a stop() that has returned normally leaves no exception of
\* the job behind.
C21_JobExceptionReraised ==
    StopReturned => daemon.queue = <<>> /\ daemon.error = "none"

\* stop() of a DaemonThread found its queue empty, the job raised ValueError
\* before the event was set, and stop() has joined the thread and returned
C21_Witness ==
    /\ StopReturned
    /\ daemon.variant = "DaemonThread"
    /\ daemon.pc = "exited"
    /\ daemon.event
    /\ daemon.queue = <<"ValueError">>

\* the job has raised before stop() was called: stop() has raised ValueError
C21_WitnessRaised ==
    /\ req.facade = "daemon"
    /\ req.name = "stop"
    /\ req.pc = "done"
    /\ req.error = "ValueError"
    /\ daemon.variant = "DaemonThread"
    /\ daemon.queue = <<>>
    /\ ~daemon.event

\* the task of an AsyncDaemon has ended with ValueError, which the await of
\* the task returned by stop() has raised
C21_WitnessAsync ==
    /\ req.facade = "daemon"
    /\ req.name = "stop"
    /\ req.pc = "done"
    /\ req.error = "ValueError"
    /\ daemon.variant = "AsyncDaemon"
    /\ daemon.error = "ValueError"

\* the state of the daemon: created until it is served, running while its
\* thread or task is alive and the event clear, stopping while it is alive
\* and the event set, stopped when the thread or task has ended
DaemonState ==
    CASE daemon.pc \in {"none", "created"} -> "created"
      [] Alive(daemon) /\ ~daemon.event -> "running"
      [] Alive(daemon) /\ daemon.event -> "stopping"
      [] OTHER -> "stopped"

Rank(state) ==
    CASE state = "created" -> 0
      [] state = "running" -> 1
      [] state = "stopping" -> 2
      [] state = "stopped" -> 3

\* the job is in flight on the thread of the daemon
InFlight == daemon.pc \in {"job", "compared"}

\* C22: a DaemonThread or AsyncDaemon goes through created, running,
\* stopping and stopped in this order and never back; stop() sets the
\* event, which only the head of the loop reads: a job in flight when the
\* event is set goes on to its end and is left by its own steps only, an
\* iteration that finds the event set at the head of the loop ends the
\* thread or task without invoking the job, the job is invoked only from a
\* head that found the event clear, and a daemon that is alive with its
\* event set ends, every job invocation being finite.
C22_StopSemantics ==
    /\ [][Rank(DaemonState') >= Rank(DaemonState)]_vars
    /\ [][(~daemon.event /\ daemon'.event) =>
             /\ req'.name = "stop"
             /\ daemon'.pc = daemon.pc
             /\ daemon'.seen = daemon.seen
             /\ UNCHANGED store]_vars
    /\ [][(InFlight /\ daemon'.pc # daemon.pc) =>
             \/ daemon.pc = "job" /\ daemon'.pc = "compared"
             \/ daemon.pc = "compared" /\ daemon'.pc = "sleeping"
             \/ daemon'.pc = "exited" /\ daemon'.queue # daemon.queue]_vars
    /\ [][(daemon.pc = "head" /\ daemon.event /\ daemon' # daemon) =>
             /\ daemon'.pc \in {"exited", "cancelled"}
             /\ daemon'.error = "none"
             /\ daemon'.queue = daemon.queue
             /\ UNCHANGED store]_vars
    /\ [][(daemon.pc = "head" /\ daemon'.pc \in {"job", "sleeping"}) =>
             ~daemon.event]_vars
    /\ (Alive(daemon) /\ daemon.event /\ InFlight)
          ~> (daemon.pc \in {"sleeping", "exited"})
    /\ (Alive(daemon) /\ daemon.event) ~> (daemon.pc \in {"exited", "cancelled"})

\* stop() of a DaemonThread has set the event and waits in join while the
\* job, which has read x and y, is about to write the result
C22_Witness ==
    /\ daemon.variant = "DaemonThread"
    /\ daemon.event
    /\ daemon.pc = "compared"
    /\ req.name = "stop"
    /\ req.pc = "joining"
    /\ DaemonState = "stopping"

\* the task of an AsyncDaemon has ended after stop(), and the await of the
\* task has returned
C22_WitnessStopped ==
    /\ daemon.variant = "AsyncDaemon"
    /\ StopReturned
    /\ daemon.event
    /\ daemon.pc = "exited"
    /\ DaemonState = "stopped"
    /\ store[DaemonUnit]["h"] # EmptyBlock

\* the thread or task of the daemon is alive and stop() has not been called
Running == Alive(daemon) /\ ~daemon.event

\* the caller's last set of x and y is complete, and it wrote the pair
LastSet(xy) ==
    /\ req.pc # "setting"
    /\ lastWrite.unit = DaemonUnit
    /\ lastWrite.space = "h"
    /\ lastWrite.values = XYValues(xy)

\* the cell of the discrete input result
ResultCell == store[DaemonUnit]["d"][3]

\* C23: with a daemon that keeps running the job of tests/test_daemon.py,
\* once x and y have been set and no further set follows, the discrete
\* input result becomes x > y and keeps this value, whatever it was before
\* and although x and y are written by two setValues calls.
C23_ResultFollows ==
    \A xy \in XYPairs :
        <>[](Running /\ LastSet(xy))
            => <>[](ResultCell = IF xy[1] > xy[2] THEN 1 ELSE 0)

\* a DaemonThread has written result = TRUE for x = 9, y = 4, the second pair
\* the caller has set, and sleeps
C23_Witness ==
    /\ daemon.variant = "DaemonThread"
    /\ Running
    /\ daemon.pc = "sleeping"
    /\ nops = MaxOps
    /\ LastSet(<<9, 4>>)
    /\ daemon.seen = XYValues(<<9, 4>>)
    /\ ResultCell = 1

\* the result is still TRUE, from x = 9 and y = 4 or from a torn read, when
\* the set of x = 9 and y = 10 is complete and the daemon is about to read
C23_WitnessStale ==
    /\ Running
    /\ daemon.pc = "job"
    /\ LastSet(<<9, 10>>)
    /\ ResultCell = 1

\* the block of the holding registers of the daemon's unit
Holding == store[DaemonUnit]["h"]

\* C24: a set_holding_registers whose values fall into two chunks makes two
\* setValues calls, one per chunk and each a step of its own: a step of the
\* call writes the cells of its first pending chunk and nothing else, and
\* the call is complete when no chunk is pending. Between the two steps the
\* job of a DaemonThread may do its one range read.
C24_ChunkByChunk ==
    /\ [][(req.pc # "setting" /\ req'.pc = "setting") =>
             /\ Len(req'.pending) = 2
             /\ UNCHANGED store]_vars
    /\ [][Holding' # Holding /\ ~Cooperative =>
             /\ req.pc = "setting"
             /\ Holding' = SetValues(Holding, Head(req.pending).address,
                                     Cells("h", Head(req.pending)))
             /\ req'.pending = Tail(req.pending)
             /\ req'.pc = IF Tail(req.pending) = <<>> THEN "done" ELSE "setting"
             /\ UNCHANGED daemon]_vars
    /\ [](req.pc = "setting" => req.pending # <<>>)

\* a torn read: after x = 3, y = 5 the caller sets x = 9, y = 4; the job
\* has read between the two setValues calls and holds x = 9 with y = 5
C24_Witness ==
    /\ daemon.variant = "DaemonThread"
    /\ daemon.pc = "compared"
    /\ daemon.seen = XYValues(<<9, 5>>)
    /\ req.pc = "setting"
    /\ req.values = XYValues(<<9, 4>>)
    /\ Len(req.pending) = 1
    /\ lastWrite.values = XYValues(<<3, 5>>)

\* the torn pair reaches the datastore: after x = 3, y = 5 the caller has set
\* x = 9, y = 10; neither pair has x > y, but the job has read x = 9 with
\* y = 5 and written result = TRUE
C24_WitnessResult ==
    /\ daemon.variant = "DaemonThread"
    /\ daemon.pc = "sleeping"
    /\ daemon.seen = XYValues(<<9, 5>>)
    /\ ResultCell = 1
    /\ req.pc = "done"
    /\ lastWrite.values = XYValues(<<9, 10>>)

\* x and y as the registers of the datastore hold them
StoredPair ==
    <<65536 * Holding[1] + Holding[2], 65536 * Holding[4] + Holding[5]>>

\* the pairs a complete set leaves in the datastore, and the initial zeroes
WholePairs == XYPairs \cup {<<0, 0>>}

\* C25: with an AsyncDaemon and a caller of set_holding_registers_coro on one
\* event loop, the set is over when the coroutine is suspended and so is
\* the job: every step that changes the holding registers is a complete set
\* of x and y, the datastore holds a complete pair wherever a coroutine may
\* run, and the job never reads a pair of which one chunk only is written.
C25_CooperativeAtomic ==
    /\ [](Cooperative => req.pc # "setting" /\ ~InFlight)
    /\ [](Cooperative => StoredPair \in WholePairs)
    /\ [](Cooperative /\ daemon.seen # <<>> =>
             \E xy \in WholePairs : daemon.seen = XYValues(xy))
    /\ [][Cooperative /\ Holding' # Holding =>
             /\ req'.name = "set_holding_registers_coro"
             /\ req'.pc = "done"
             /\ \E xy \in XYPairs : req'.values = XYValues(xy) /\ StoredPair' = xy
             /\ UNCHANGED daemon]_vars
    /\ [][Cooperative /\ daemon.pc = "head" /\ daemon'.pc = "sleeping" =>
             /\ daemon'.seen = XYValues(StoredPair)
             /\ ResultCell' = IF StoredPair[1] > StoredPair[2] THEN 1 ELSE 0
             /\ UNCHANGED <<req, Holding>>]_vars

\* an AsyncDaemon has run its job on x = 9, y = 4, the second pair set by
\* set_holding_registers_coro, and sleeps
C25_Witness ==
    /\ daemon.variant = "AsyncDaemon"
    /\ daemon.pc = "sleeping"
    /\ daemon.seen = XYValues(<<9, 4>>)
    /\ ResultCell = 1
    /\ req.name = "set_holding_registers_coro"
    /\ req.pc = "done"
    /\ nops = MaxOps
    /\ StoredPair = <<9, 4>>

\* C27: the sleep after a job that took elapsed is max(0, period - elapsed)
\* in every daemon: at most the period, and 0 when the job took a period or
\* more.
C27_SleepIsRemainder ==
    daemon.pc = "sleeping" =>
        /\ daemon.wait = Max(0, daemon.period - daemon.elapsed)
        /\ daemon.wait <= daemon.period
        /\ daemon.elapsed >= daemon.period => daemon.wait = 0

\* an AsyncDaemon of period 2 sleeps 5 after a job that took 3
C27_Witness ==
    /\ daemon.variant = "AsyncDaemon"
    /\ daemon.pc = "sleeping"
    /\ daemon.period = 2
    /\ daemon.elapsed = 3
    /\ daemon.wait = 5

\* a DaemonThread of period 2 does not sleep after a job that took 3
C27_WitnessThread ==
    /\ daemon.variant = "DaemonThread"
    /\ daemon.pc = "sleeping"
    /\ daemon.period = 2
    /\ daemon.elapsed = 3
    /\ daemon.wait = 0

\* C28: a daemon constructed with a negative period raises
\* NegativePeriodError and there is no daemon; with period 0 or a positive
\* period the constructor returns a daemon that is created, its job not
\* started, whatever the class.
C28_NegativePeriodOnly ==
    made # NoMade =>
        IF made.period < 0
        THEN made.error = "NegativePeriodError" /\ daemon = NoDaemon
        ELSE /\ made.error = "none"
             /\ daemon.variant = made.variant
             /\ daemon.period = made.period
             /\ daemon.pc = "created" => daemon.seen = <<>> /\ ResultCell = 0

\* the construction of a threaded.Daemon of period 2 has raised ImportError
C28_Witness ==
    /\ made = [variant |-> "Daemon", period |-> 2, error |-> "ImportError"]
    /\ daemon = NoDaemon

\* DaemonThread(job, -1) has raised NegativePeriodError, and
\* AsyncDaemon(job, 0) is accepted
C28_WitnessNegative ==
    \/ /\ made = [variant |-> "DaemonThread", period |-> -1,
                  error |-> "NegativePeriodError"]
       /\ daemon = NoDaemon
    \/ /\ made = [variant |-> "AsyncDaemon", period |-> 0, error |-> "none"]
       /\ daemon.pc = "created"

\* the current call is a set_* of the local context, with keys that are all
\* declared, on a unit that has the sub-layout and no datastore
SetWithoutStore ==
    /\ req.facade = "context"
    /\ req.name \in WriteNames
    /\ LayoutWithoutStore
    /\ DOMAIN req.values \subseteq LayoutNames(ReqLayout)

C31_WitnessRaised ==
    /\ SetWithoutStore
    /\ req.name = "set_holding_registers"
    /\ req.unit = 2
    /\ DOMAIN req.values = {"i"}
    /\ req.error = "NoSuchSlave"

\* the exceptions of the layout lookup and of build_payload
ValidationErrors ==
    {"NoSuchSlaveLayout", "MissingSubLayout", "VariableNotFound", "OutOfBounds"}

\* C32: a set_* of the local context or a write_* of Client or Protocol that
\* raises NoSuchSlaveLayout, MissingSubLayout, VariableNotFound or an
\* encoding error has sent no request and made no setValues call, and the
\* step of the call leaves every cell of the datastore and the command
\* queue as they were, also when values names valid variables below the
\* offending one.
C32_ValidationFirst ==
    /\ [](req.name \in WriteNames /\ req.error \in ValidationErrors
            => req.pc = "done" /\ req.sent = <<>> /\ req.wire = <<>>)
    /\ [][(nops' = nops + 1 /\ req'.name \in WriteNames
              /\ req'.error \in ValidationErrors)
            => store' = store /\ commands' = commands]_vars

\* set_holding_registers of unit 0 has raised OutOfBounds for i, with the
\* valid str, which lies below i, in values
C32_Witness ==
    /\ req.facade = "context"
    /\ req.name = "set_holding_registers"
    /\ req.unit = 0
    /\ req.unit \in DOMAIN store
    /\ req.error = "OutOfBounds"
    /\ {"str", "i"} \subseteq DOMAIN req.values
    /\ ~InRange("i32", req.values["i"])

\* write_coils of the Client has raised VariableNotFound for unit 0, with
\* the declared x, y and z in values
C32_WitnessRemote ==
    /\ req.facade = "client"
    /\ req.name = "write_coils"
    /\ req.unit = 0
    /\ req.error = "VariableNotFound"
    /\ {"x", "y", "z", "spam"} \subseteq DOMAIN req.values

\* a write_* of Client or Protocol waits for the response to a request
RemoteWriteWaits ==
    /\ req.facade \in {"client", "protocol"}
    /\ req.name \in WriteNames
    /\ req.pc \in {"awaiting", "pending"}

\* a write_* of Client or Protocol has raised ModbusResponse
RemoteWriteRefused ==
    /\ req.facade \in {"client", "protocol"}
    /\ req.name \in WriteNames
    /\ req.error = "ModbusResponse"

\* the cells of the chunk hold its values in the datastore of the server
StaysWritten(unit, space, chunk) ==
    /\ unit \in DOMAIN store
    /\ GetValues(store[unit][space], chunk.address, Len(chunk.values))
          = Cells(space, chunk)

\* C33: when the response to the request of the k-th chunk of a
\* write_holding_registers or write_coils of Client or Protocol carries
\* another function code than that of the request, the step that takes the
\* response ends the call with ModbusResponse, issues no request and leaves
\* the datastore, the command queue and the requests issued as they are; the
\* requests issued are then those of the first k chunks, all of them made,
\* and the chunks before the k-th are in the datastore of the server.
C33_PartialWrite ==
    /\ [][(/\ RemoteWriteWaits
            /\ req'.response.kind = "response"
            /\ req'.response.function_code # FunctionCode(req.sent[Len(req.sent)].fn))
          => /\ req'.pc = "done"
             /\ req'.error = "ModbusResponse"
             /\ req'.sent = req.sent
             /\ req'.carries = req'.response
             /\ commands' = commands
             /\ store' = store]_vars
    /\ [](RemoteWriteRefused =>
            LET chunks == BuildPayload(ReqLayout, req.values).chunks
                k == Len(req.sent)
            IN  /\ req.pc = "done"
                /\ 1 <= k /\ k <= Len(chunks)
                /\ req.wire = req.sent
                /\ req.response.function_code # FunctionCode(req.sent[k].fn)
                /\ req.pending = SubSeq(chunks, k, Len(chunks))
                /\ \A i \in 1..k : WritesChunk(req.sent[i], chunks[i])
                /\ \A i \in 1..(k - 1) : StaysWritten(req.unit, req.space, chunks[i])
                /\ commands = <<>>)

\* Client.write_holding_registers of a, b, c and d of the wide unit has
\* raised ModbusResponse on the response to its third request: a and b are
\* written, the request for d was never issued
C33_Witness ==
    /\ RemoteWriteRefused
    /\ req.facade = "client"
    /\ req.unit = WideUnit
    /\ DOMAIN req.values = {"a", "b", "c", "d"}
    /\ Len(req.sent) = 3
    /\ Len(req.pending) = 2
    /\ store[WideUnit]["h"][1] = 64981
    /\ store[WideUnit]["h"][4] = 64981

\* Protocol.write_holding_registers of c and d of the wide unit has raised
\* ModbusResponse on the response to its first request
C33_WitnessFirst ==
    /\ RemoteWriteRefused
    /\ req.facade = "protocol"
    /\ req.unit = WideUnit
    /\ DOMAIN req.values = {"c", "d"}
    /\ Len(req.sent) = 1
    /\ Len(req.pending) = 2

\* _execute waits on the empty response queue of a worker that has left its
\* loop: no step of the worker or of the caller follows
ExecuteBlocked ==
    /\ ClientCall
    /\ req.pc = "awaiting"
    /\ worker.pc \in {"leaving", "exited"}
    /\ responses = <<>>

\* C34: on a started Client no _execute is left waiting for a response
\* that nothing will put, also after an earlier RPC has raised in the
\* worker: the call returns the result of its RPC or raises.
C34_ExecuteTerminates == phase = "started" => ~ExecuteBlocked

\* an RPC has raised in the worker of the started client, which has ended;
\* the next call has put its command, which nobody takes, and waits
C34_Witness ==
    /\ phase = "started"
    /\ active
    /\ ExecuteBlocked
    /\ worker.pc = "exited"
    /\ nops = 2
    /\ commands = <<Command(LastSent)>>

(***************************************************************************)
(* Two threads that call the same Client                                   *)
(***************************************************************************)
\* the second thread calls read_coils(unit=0): _execute puts the RpcCall on
\* the command queue, unless the Client is not started
other_read_coils ==
    /\ other.pc = "idle"
    /\ LET r == Request("client", "read_coils", "c", 0, <<>>, None)
           i == Execute_(r, ReadRpc("c", 0, GetFallible(0, "c").layout[1]))
       IN  other' = i.req /\ commands' = i.commands
    /\ UNCHANGED <<store, req, lastWrite, nops, active, worker, responses, phase, env>>

\* _execute of the second thread takes the item at the head of the
\* response queue, and read_coils checks and decodes it
other_receive ==
    /\ other.pc = "awaiting"
    /\ responses # <<>>
    /\ responses' = Tail(responses)
    /\ other' = Accept(other, Head(responses))
    /\ UNCHANGED <<store, req, lastWrite, nops, active, worker, commands, phase, env>>

InitCallers == Init

\* the first thread starts the Client and writes holding registers, the
\* second thread reads coils
NextCallers ==
    \/ start /\ UNCHANGED <<codecVars, layoutVars, daemonVars, callerVars>>
    \/ start_receive /\ UNCHANGED <<codecVars, layoutVars, daemonVars, callerVars>>
    \/ connect /\ UNCHANGED <<codecVars, layoutVars, daemonVars, callerVars>>
    \/ get /\ UNCHANGED <<codecVars, layoutVars, daemonVars, callerVars>>
    \/ execute /\ UNCHANGED <<codecVars, layoutVars, daemonVars, callerVars>>
    \/ receive /\ UNCHANGED <<codecVars, layoutVars, daemonVars, callerVars>>
    \/ write_holding_registers /\ UNCHANGED <<codecVars, layoutVars, daemonVars, callerVars>>
    \/ other_read_coils /\ UNCHANGED <<codecVars, layoutVars, daemonVars>>
    \/ other_receive /\ UNCHANGED <<codecVars, layoutVars, daemonVars>>

SpecCallers == InitCallers /\ [][NextCallers]_vars

\* the response the call has taken answers the request the call has made
OwnResponse(r) ==
    r.response.kind = "response" =>
        r.response.function_code % 128 = FunctionCode(r.sent[Len(r.sent)].fn)

\* C35: with two threads calling the started Client, each call takes from
\* the response queue the response to the command it has put itself: the
\* first thread, which writes holding registers, never takes the response
\* to read_coils of the second, and the second never that to a request of
\* the first.
C35_OwnResponse ==
    /\ ClientCall => OwnResponse(req)
    /\ OwnResponse(other)

\* read_coils of the second thread has taken the response to the
\* write_holding_registers of the first, and raised ModbusResponse for its
\* function code; the first thread still waits
C35_Witness ==
    /\ req.name = "write_holding_registers"
    /\ req.pc = "awaiting"
    /\ other.pc = "done"
    /\ other.sent # <<>>
    /\ other.sent[1].fn = "read_coils"
    /\ other.response.kind = "response"
    /\ other.response.function_code = 16
    /\ other.error = "ModbusResponse"

\* stop(timeout) of a DaemonThread has returned to the caller without an
\* exception, whatever the timeout
ThreadStopReturned ==
    /\ daemon.variant = "DaemonThread"
    /\ req.facade = "daemon"
    /\ req.name = "stop"
    /\ req.pc = "done"
    /\ req.error = "none"

\* C36: when DaemonThread.stop(timeout) has returned normally, with any
\* timeout, the thread of the daemon has ended: it is not at the head of
\* its loop, not in the job and not asleep.
C36_StoppedOnReturn == ThreadStopReturned => daemon.pc = "exited"

\* stop(3) has returned normally while the job of the daemon is running
C36_Witness ==
    /\ ThreadStopReturned
    /\ req.timeout = Some(3)
    /\ daemon.event
    /\ daemon.pc = "job"

\* the current call is Client.write, or the write_* it has dispatched to
ViaWrite ==
    /\ req.facade = "client"
    /\ req.var # None
    /\ req.name \in {"write", "write_holding_registers", "write_coils"}

\* C37: Client.write(var, value) of a var that the holding-register layout
\* or the coil layout of some unit declares goes on to write_* of such a
\* unit and sub-space with that one variable, whatever other layouts
\* declare the name, and every request it makes is for the cells of the
\* variable; for a var no layout of any unit declares it raises
\* VariableNotFound and makes no request.
C37_WriteReaches ==
    ViaWrite =>
        LET var == req.var[1] IN
        /\ (\E u \in LayoutUnits : \E sp \in {"h", "c"} : Declares(u, sp, var)) =>
              /\ req.name \in {"write_holding_registers", "write_coils"}
              /\ req.space \in {"h", "c"}
              /\ Declares(req.unit, req.space, var)
              /\ DOMAIN req.values = {var}
              /\ \A k \in 1..Len(req.sent) :
                    /\ req.sent[k].unit = req.unit
                    /\ req.sent[k].address = VariableNamed(ReqLayout, var).address
        /\ (\A u \in LayoutUnits : \A sp \in Spaces : ~Declares(u, sp, var)) =>
              /\ req.name = "write"
              /\ req.error = "VariableNotFound"
              /\ req.sent = <<>>

\* write("a", value) has raised AssertionError: find has answered the input
\* registers of unit 0, while the holding registers of unit 1 declare a
C37_Witness ==
    /\ ViaWrite
    /\ req.var = Some("a")
    /\ req.name = "write"
    /\ req.pc = "done"
    /\ req.error = "AssertionError"
    /\ req.sent = <<>>
    /\ Declares(0, "i", "a")
    /\ Declares(1, "h", "a")

\* write("x", value) has written the coils x of unit 0 with one request,
\* while the holding registers of the unit of the daemons declare x as well
C37_WitnessWritten ==
    /\ ViaWrite
    /\ req.var = Some("x")
    /\ req.name = "write_coils"
    /\ req.unit = 0
    /\ req.pc = "done"
    /\ req.error = "none"
    /\ Len(req.wire) = 1
    /\ Declares(DaemonUnit, "h", "x")

====
